---- MODULE Spec2Model ----
(***************************************************************************)
(* A model of the web runtime of the WGSL game engine (class               *)
(* WGSLGameEngine): the shader preprocessor, the host block layout, the    *)
(* binding plan and the OSC surface.                                       *)
(*                                                                         *)
(* A shader source is modelled as a sequence of tokens: the directives the *)
(* preprocessor's regular expressions match (@import, @texture, ...), and  *)
(* the GameState struct literal with its list of field types.  WGSL text   *)
(* between the directives is not represented: no regular expression of the *)
(* preprocessor matches it.  Names are sequences of characters.            *)
(***************************************************************************)
EXTENDS Integers, Sequences, FiniteSets, TLC

VARIABLES
    game,                    \* what readFile/readFileText resolve: the files behind the game URL
    loads,                   \* number of completed loadGame calls
    result,                  \* preprocessShader's return value for the last load (code, metadata)
    stateSize, audioCount,   \* this.stateSize, this.audioCount
    textureFiles, videoFiles, cameraIndices, modelFiles,
    oscParams, oscValues,    \* this.oscParams, this.oscValues (Float32Array(64))
    textures, videoTextures, models,  \* number of GPU resources created by the loaders
    cameraTextures,          \* this.cameraTextures: the size of each camera texture
    soundBuffers,            \* this.soundBuffers: TRUE for data, FALSE for null
    totalSize, bufferOffsets,\* engineBuffer size, this.bufferOffsets
    renderBindGroupLayout0, renderBindGroupLayout2,
    renderBindGroup0, renderBindGroup2,
    frameWrites,             \* the host-block accesses enqueued by the last update()
    lastCall,                \* arguments of the most recent setOsc call
    keys, buttons,           \* this.keys (Uint32Array(194)), this.buttons (Int32Array(12))
    mouseX, mouseY, mouseClickX, mouseClickY,
    running,                 \* this.running
    currentPath,             \* this.currentPath
    reloadCalls,             \* number of reload() calls made
    loading,                 \* how far a loadGame started by setShader has come
    frameInLoad,             \* whether the last frame ran while a loadGame was in progress
    loadError,               \* init() has rejected
    unreadable,              \* the asset files readFile cannot read
    videoDevices,            \* the camera indices that can be opened
    pressed,                 \* the keys (e.code) that are physically down
    pointer,                 \* the mouse: left button held, position of its last press
    modelBuffers,            \* the contents of the buffers of this.models
    modelVertexCount,        \* this.modelVertexCount
    initData,                \* the non-zero words setupBuffers wrote into the engine buffer
    audio,                   \* the audio counters of the engine buffer
    staged,                  \* the audio counters last copied into the staging buffer
    mapping,                 \* the mapping state of the staging buffer
    frameOps,                \* the GPU calls of the last gameLoop(), in order
    playRequests,            \* the playSound calls of the last read-back callback, in order
    owed                     \* the sounds a compute pass triggered that were not yet requested

vars == << game, loads, result, stateSize, audioCount, textureFiles, videoFiles,
           cameraIndices, modelFiles, oscParams, oscValues, textures, videoTextures,
           cameraTextures, models, totalSize, bufferOffsets, renderBindGroupLayout0,
           renderBindGroupLayout2, renderBindGroup0, renderBindGroup2, frameWrites,
           lastCall, soundBuffers, keys, buttons, mouseX, mouseY, mouseClickX, mouseClickY,
           running, currentPath, reloadCalls, loading, frameInLoad, loadError, unreadable,
           videoDevices, pressed, pointer, modelBuffers, modelVertexCount, initData,
           audio, staged, mapping, frameOps, playRequests, owed >>

\* the input fields of the engine, the state of a load in progress, and what is outside
\* the engine
inputVars == << keys, buttons, mouseX, mouseY, mouseClickX, mouseClickY >>
loadVars  == << currentPath, reloadCalls, loading, frameInLoad >>
envVars   == << unreadable, videoDevices, pressed, pointer >>

\* what loadModels assigns besides this.models, what setupBuffers creates, and what
\* the frame loop and the audio read-back leave behind
modelVars  == << modelBuffers, modelVertexCount >>
bufferVars == << initData, audio, staged, mapping >>
frameVars  == << frameOps, playRequests, owed >>

(***************************************************************************)
(* Bounds of the model.                                                    *)
(***************************************************************************)
MaxFields == 3      \* fields of a generated GameState struct
MaxSounds == 2      \* distinct sounds of a layout game
ArrayCount == 3     \* N of the generated array<T, N> fields
MaxImports == 2     \* tokens per file of an import game
MaxBody == 3        \* tokens of main.wgsl of an asset game
MaxRes == 2         \* textures / videos / cameras / models of a binding game
MaxLoads == 2       \* loadGame calls of one engine (init, then setShader)
MaxName == 2        \* characters of an OSC name
MaxOscCalls == 1    \* setOsc calls
MaxExtraOsc == 2    \* distinct OSC parameters beyond the 64 slots
MaxReloads == 2     \* reload() calls

(***************************************************************************)
(* Generic helpers.                                                        *)
(***************************************************************************)
Range(s) == { s[i] : i \in 1..Len(s) }

Max(a, b) == IF a >= b THEN a ELSE b

\* Math.ceil(x / m) * m for integers x >= 0, m > 0
CeilTo(x, m) == ((x + m - 1) \div m) * m

SeqsUpTo(S, n) == UNION { [1..k -> S] : k \in 0..n }

\* Array.prototype.indexOf, 0-based, -1 when absent
IndexOf(list, x) ==
    IF \E i \in 1..Len(list) : list[i] = x
    THEN (CHOOSE i \in 1..Len(list) : list[i] = x /\ \A j \in 1..(i-1) : list[j] # x) - 1
    ELSE -1

RECURSIVE SumSeq(_)
SumSeq(s) == IF s = << >> THEN 0 ELSE Head(s) + SumSeq(Tail(s))

RECURSIVE CountIn(_, _)
CountIn(s, x) ==
    IF s = << >> THEN 0 ELSE (IF Head(s) = x THEN 1 ELSE 0) + CountIn(Tail(s), x)

RECURSIVE SortAsc(_)
SortAsc(S) ==
    IF S = {} THEN << >>
    ELSE LET m == CHOOSE x \in S : \A y \in S : x <= y
         IN << m >> \o SortAsc(S \ {m})

(***************************************************************************)
(* Tokens of a shader source.                                              *)
(***************************************************************************)
NoName == << >>

Tok(k, fam, name, idx, fields) ==
    [k |-> k, fam |-> fam, name |-> name, idx |-> idx, fields |-> fields]

Import(f)        == Tok("import", "", f, 0, << >>)          \* @import("f")
Dir(fam, name)   == Tok("dir", fam, name, 0, << >>)         \* @texture("name"), @sound("name"), ...
Camera(n)        == Tok("dir", "camera", NoName, n, << >>)  \* @camera(n)
Struct(fields)   == Tok("struct", "", NoName, 0, fields)    \* struct GameState { fields }
\* what the preprocessor writes
AlreadyImported(f) == Tok("already", "", f, 0, << >>)       \* // Already imported: f
ImportedFrom(f)    == Tok("from", "", f, 0, << >>)          \* // Imported from f
Ident(fam, i)      == Tok("id", fam, NoName, i, << >>)      \* _texture_i, _engine.audio[i], ...
\* text of a file that String.prototype.replace treats specially in a replacement:
\* p is "match" for $&, "before" for $` and "after" for $'
Pattern(p)         == Tok("pattern", p, NoName, 0, << >>)

\* A field of GameState: its type, and n > 0 for array<t, n>
Field(t, n) == [t |-> t, n |-> n]

MainFile == << "m", "a", "i", "n" >>

(***************************************************************************)
(* GameState size calculation of preprocessShader.                         *)
(***************************************************************************)
\* elementSize and elementAlign of an array<elementType, count> field
ArrayElementSize(t) ==
    IF t = "vec4f" THEN 16
    ELSE IF t = "vec3f" THEN 16      \* vec3 aligns to 16 in arrays
    ELSE IF t = "vec2f" THEN 8
    ELSE 4

\* FieldContribution with a vec3f field counted as 16 bytes, as it is inside arrays
FieldContributionVec3Padded(f) ==
    IF f.n > 0
    THEN [size |-> ArrayElementSize(f.t) * f.n, align |-> ArrayElementSize(f.t)]
    ELSE IF f.t \in {"vec4f", "vec3f"} THEN [size |-> 16, align |-> 16]
    ELSE IF f.t = "vec2f" THEN [size |-> 8, align |-> 8]
    ELSE IF f.t \in {"u32", "i32", "f32"} THEN [size |-> 4, align |-> 4]
    ELSE [size |-> 0, align |-> 0]

\* what one matched field adds to stateSize, and the alignment it asks for
\* (0: the field's type is not recognised and nothing changes)
FieldContribution(f) ==
    IF f.n > 0
    THEN [size |-> ArrayElementSize(f.t) * f.n, align |-> ArrayElementSize(f.t)]
    ELSE IF f.t = "vec4f" THEN [size |-> 16, align |-> 16]
    ELSE IF f.t = "vec3f" THEN [size |-> 12, align |-> 16]
    ELSE IF f.t = "vec2f" THEN [size |-> 8, align |-> 8]
    ELSE IF f.t \in {"u32", "i32", "f32"} THEN [size |-> 4, align |-> 4]
    ELSE [size |-> 0, align |-> 0]

\* the for loop over the fields: stateSize += ..., stateAlignment = Math.max(...)
RECURSIVE FieldLoop(_, _, _)
FieldLoop(fields, size, align) ==
    IF fields = << >> THEN [size |-> size, align |-> align]
    ELSE LET c == FieldContribution(Head(fields))
         IN FieldLoop(Tail(fields), size + c.size, Max(align, c.align))

\* AlignStateSize without the Math.max(stateAlignment, ...) floor
AlignStateSizeNoFloor(size, align) == CeilTo(size, align)

\* Align to struct's alignment (largest member)
AlignStateSize(size, align) == Max(align, CeilTo(size, align))

\* stateSize and stateAlignment for the matched struct (hasStruct) or without one
StateLayout(hasStruct, fields) ==
    IF hasStruct
    THEN LET acc == FieldLoop(fields, 0, 4)
         IN [size |-> AlignStateSize(acc.size, acc.align), align |-> acc.align]
    ELSE [size |-> 16, align |-> 4]

(***************************************************************************)
(* The layout the WGSL compiler gives a struct in a storage buffer: each   *)
(* member at the next multiple of its alignment, the size rounded up to    *)
(* the alignment of the struct.                                            *)
(***************************************************************************)
WgslBaseAlign(t) ==
    IF t \in {"vec3f", "vec4f"} THEN 16
    ELSE IF t \in {"vec2f", "mat2x2f"} THEN 8
    ELSE 4

WgslBaseSize(t) ==
    IF t \in {"vec4f", "mat2x2f"} THEN 16
    ELSE IF t = "vec3f" THEN 12
    ELSE IF t = "vec2f" THEN 8
    ELSE 4

WgslAlign(f) == WgslBaseAlign(f.t)

WgslSize(f) ==
    IF f.n > 0 THEN f.n * CeilTo(WgslBaseSize(f.t), WgslBaseAlign(f.t))
    ELSE WgslBaseSize(f.t)

\* a member of a struct: a plain field, or a nested struct given by its fields
Member(name, type) == [name |-> name, isStruct |-> FALSE, type |-> type, fields |-> << >>]
StructMember(name, fields) ==
    [name |-> name, isStruct |-> TRUE, type |-> Field("", 0), fields |-> fields]

RECURSIVE WgslStructAlign(_)
WgslStructAlign(fields) ==
    IF fields = << >> THEN 4
    ELSE Max(WgslAlign(Head(fields)), WgslStructAlign(Tail(fields)))

\* the offset just after the last of the fields, the first one placed at or after `at`
RECURSIVE WgslFieldsEnd(_, _)
WgslFieldsEnd(fields, at) ==
    IF fields = << >> THEN at
    ELSE WgslFieldsEnd(Tail(fields),
                       CeilTo(at, WgslAlign(Head(fields))) + WgslSize(Head(fields)))

WgslStructSize(fields) == CeilTo(WgslFieldsEnd(fields, 0), WgslStructAlign(fields))

MemberAlign(m) == IF m.isStruct THEN WgslStructAlign(m.fields) ELSE WgslAlign(m.type)
MemberSize(m)  == IF m.isStruct THEN WgslStructSize(m.fields) ELSE WgslSize(m.type)

\* offset of the i-th member of a struct with these members
RECURSIVE WgslOffset(_, _)
WgslOffset(members, i) ==
    IF i = 1 THEN 0
    ELSE CeilTo(WgslOffset(members, i - 1) + MemberSize(members[i - 1]),
                MemberAlign(members[i]))

HasMember(members, name) == \E i \in 1..Len(members) : members[i].name = name

\* offset of the member called name
MemberOffset(members, name) ==
    WgslOffset(members, CHOOSE i \in 1..Len(members) : members[i].name = name)

(***************************************************************************)
(* preprocessShader.                                                       *)
(***************************************************************************)
\* [...source.matchAll(/@import\("([^"]+)"\)/g)]: the file names, in source order
RECURSIVE ImportMatches(_)
ImportMatches(source) ==
    IF source = << >> THEN << >>
    ELSE (IF Head(source).k = "import" THEN << Head(source).name >> ELSE << >>)
         \o ImportMatches(Tail(source))

\* What String.prototype.replace makes of a replacement string: "$&" stands for the
\* matched text, "$`" for the text before the match and "$'" for the text after it
RECURSIVE GetSubstitution(_, _, _, _)
GetSubstitution(replacement, matched, before, after) ==
    IF replacement = << >> THEN << >>
    ELSE LET t == Head(replacement)
         IN (IF t.k # "pattern" THEN << t >>
             ELSE IF t.fam = "match" THEN << matched >>
             ELSE IF t.fam = "before" THEN before
             ELSE after)
            \o GetSubstitution(Tail(replacement), matched, before, after)

\* source.replace(match, replacement) with a string pattern: the first occurrence only
ReplaceFirst(source, tok, replacement) ==
    IF \A i \in 1..Len(source) : source[i] # tok THEN source
    ELSE LET i == CHOOSE j \in 1..Len(source) :
                      source[j] = tok /\ \A h \in 1..(j-1) : source[h] # tok
             before == SubSeq(source, 1, i - 1)
             after  == SubSeq(source, i + 1, Len(source))
         IN before \o GetSubstitution(replacement, tok, before, after) \o after

\* the recursive call gets the caller's Set object: what the callee added is seen
\* by the caller's later iterations
ImportedFilesAfterCall(callerSet, calleeSet) == calleeSet

\* if (!list.includes(name)) list.push(name)
PushNew(list, name) == IF name \in Range(list) THEN list ELSE Append(list, name)

\* one matchAll loop of the asset discovery: the names of the directives of one
\* family, in source order, pushed onto list unless list has them already.  A match
\* is pushed when its name is neither in list nor the name of an earlier match.
ScanFamily(source, fam, list) ==
    LET matches == { i \in 1..Len(source) : source[i].k = "dir" /\ source[i].fam = fam }
        pushed  == { i \in matches :
                       /\ source[i].name \notin Range(list)
                       /\ \A j \in matches : j < i => source[j].name # source[i].name }
    IN list \o [k \in 1..Cardinality(pushed) |->
                  source[CHOOSE i \in pushed : Cardinality({ j \in pushed : j <= i }) = k].name]

\* one scan that takes @texture() and @texture_index() references as they come
RECURSIVE ScanEitherTextureDirective(_, _)
ScanEitherTextureDirective(source, list) ==
    IF source = << >> THEN list
    ELSE LET last   == source[Len(source)]
             before == ScanEitherTextureDirective(SubSeq(source, 1, Len(source) - 1), list)
         IN IF last.k = "dir" /\ last.fam \in {"texture", "texture_index"}
            THEN PushNew(before, last.name) ELSE before

\* ScanTextures as a single scan in source order
ScanTexturesInSourceOrder(source) == ScanEitherTextureDirective(source, << >>)

\* @texture() references first, then the @texture_index() references
ScanTextures(source) == ScanFamily(source, "texture_index", ScanFamily(source, "texture", << >>))

\* @camera(n) references, sorted ascending
ScanCameras(source) ==
    SortAsc({ source[i].idx : i \in { j \in 1..Len(source) :
                                       source[j].k = "dir" /\ source[j].fam = "camera" } })

HasStruct(source) == \E i \in 1..Len(source) : source[i].k = "struct"

\* source.match(/struct GameState\s*{[^}]+}/s): the first struct literal
FirstStruct(source) ==
    source[CHOOSE i \in 1..Len(source) :
               source[i].k = "struct" /\ \A h \in 1..(i-1) : source[h].k # "struct"]

GameStateFields(source) == IF HasStruct(source) THEN FirstStruct(source).fields ELSE << >>

Metadata(source) ==
    [ sounds    |-> ScanFamily(source, "sound", << >>),
      textures  |-> ScanTextures(source),
      videos    |-> ScanFamily(source, "video", << >>),
      cameras   |-> ScanCameras(source),
      oscParams |-> ScanFamily(source, "osc", << >>),
      models    |-> ScanFamily(source, "model", << >>),
      stateSize |-> StateLayout(HasStruct(source), GameStateFields(source)).size,
      stateAlignment |-> StateLayout(HasStruct(source), GameStateFields(source)).align ]

\* the members of the emitted struct GameEngineHost, in order
HostMembers(metadata, hasStruct, fields) ==
    << Member("buttons", Field("i32", 12)),
       Member("time", Field("f32", 0)),
       Member("delta_time", Field("f32", 0)),
       Member("screen_width", Field("f32", 0)),
       Member("screen_height", Field("f32", 0)),
       Member("mouse", Field("vec4f", 0)) >>
    \o (IF hasStruct THEN << StructMember("state", fields) >> ELSE << >>)
    \o (IF Len(metadata.sounds) > 0
        THEN << Member("audio", Field("u32", Len(metadata.sounds))) >> ELSE << >>)
    \o << Member("osc", Field("f32", 64)), Member("keys", Field("u32", 194)) >>

Binding(group, binding, kind, i) == [group |-> group, binding |-> binding, kind |-> kind, i |-> i]

\* the @group(g) @binding(b) declarations of the header, in order
HeaderBindings(metadata) ==
    LET videoBase  == Len(metadata.textures) + 1
        cameraBase == Len(metadata.textures) + Len(metadata.videos) + 1
    IN << Binding(0, 0, "sampler", 0) >>
       \o [i \in 1..Len(metadata.textures) |-> Binding(0, (i - 1) + 1, "texture", i - 1)]
       \o [i \in 1..Len(metadata.videos) |-> Binding(0, videoBase + (i - 1), "video", i - 1)]
       \o [i \in 1..Len(metadata.cameras) |-> Binding(0, cameraBase + (i - 1), "camera", i - 1)]
       \o << Binding(1, 0, "engine", 0) >>
       \o [j \in 1..(2 * Len(metadata.models)) |->
             LET i == (j - 1) \div 2
                 bindingBase == 1 + i * 2
             IN IF j % 2 = 1 THEN Binding(2, bindingBase, "positions", i)
                ELSE Binding(2, bindingBase + 1, "normals", i)]

NoHeader == [present |-> FALSE, hasGameState |-> FALSE, gameState |-> << >>,
             hostMembers |-> << >>, bindings |-> << >>]

Header(metadata, hasStruct, fields) ==
    [present |-> TRUE, hasGameState |-> hasStruct, gameState |-> fields,
     hostMembers |-> HostMembers(metadata, hasStruct, fields),
     bindings |-> HeaderBindings(metadata)]

\* the list whose positions number the directives of a family
FamilyList(metadata, fam) ==
    IF fam = "sound" THEN metadata.sounds
    ELSE IF fam \in {"texture", "texture_index"} THEN metadata.textures
    ELSE IF fam = "video" THEN metadata.videos
    ELSE IF fam = "osc" THEN metadata.oscParams
    ELSE metadata.models

\* the directive replaced by its generated identifier or index
RewriteToken(t, metadata) ==
    IF t.k # "dir" THEN t
    ELSE IF t.fam = "camera" THEN Ident("camera", IndexOf(metadata.cameras, t.idx))
    ELSE Ident(t.fam, IndexOf(FamilyList(metadata, t.fam), t.name))

\* the metadata.X.forEach(... source.replace(regex, ...)) loops
Rewrite(source, metadata) == [i \in 1..Len(source) |-> RewriteToken(source[i], metadata)]

(***************************************************************************)
(* @str("...") literals.  The text between the quotes is a sequence of     *)
(* UTF-16 code units, each written as its number: 92 is the backslash, 34  *)
(* the double quote, 110, 114 and 116 the letters n, r and t.              *)
(***************************************************************************)
MAX_STRING_LENGTH == 128

Str(raw)        == Tok("str", "", raw, 0, << >>)        \* @str("raw")
\* array<u32, size>(elements[1]u, elements[2]u, ...)
ArrayLiteral(size, elements) == Tok("array", "u32", elements, size, << >>)

\* the positions at which pat occurs in s
OccurrencesOf(s, pat) ==
    { i \in 1..(Len(s) - Len(pat) + 1) : SubSeq(s, i, i + Len(pat) - 1) = pat }

\* the least element of a non-empty set of numbers
Least(S) == CHOOSE x \in S : \A y \in S : x <= y

\* s.replace(/pat/g, rep) for a pattern that is a fixed text: the next match is looked
\* for after the end of the previous one
RECURSIVE ReplaceAll(_, _, _)
ReplaceAll(s, pat, rep) ==
    IF OccurrencesOf(s, pat) = {} THEN s
    ELSE LET i == Least(OccurrencesOf(s, pat))
         IN SubSeq(s, 1, i - 1) \o rep
                \o ReplaceAll(SubSeq(s, i + Len(pat), Len(s)), pat, rep)

\* the escapes are replaced in one pass over the text, from left to right
RECURSIVE UnescapeInOnePass(_)
UnescapeInOnePass(raw) ==
    LET escapes == { i \in 1..(Len(raw) - 1) : raw[i] = 92 }
    IN IF escapes = {} THEN raw
       ELSE LET i == Least(escapes)
                c == raw[i + 1]
                rest == UnescapeInOnePass(SubSeq(raw, i + 2, Len(raw)))
            IN SubSeq(raw, 1, i - 1)
                  \o (CASE c = 110 -> << 10 >>
                         [] c = 114 -> << 13 >>
                         [] c = 116 -> << 9 >>
                         [] c = 34  -> << 34 >>
                         [] c = 92  -> << 92 >>
                         [] OTHER   -> << 92, c >>)
                  \o rest

\* match[1].replace(/\\n/g, '\n').replace(/\\r/g, '\r').replace(/\\t/g, '\t')
\*         .replace(/\\"/g, '"').replace(/\\\\/g, '\\')
Unescape(raw) ==
    ReplaceAll(ReplaceAll(ReplaceAll(ReplaceAll(ReplaceAll(raw,
        << 92, 110 >>, << 10 >>),
        << 92, 114 >>, << 13 >>),
        << 92, 116 >>, << 9 >>),
        << 92, 34 >>, << 34 >>),
        << 92, 92 >>, << 92 >>)

\* while (charCodes.length < MAX_STRING_LENGTH) charCodes.push(0)
PadWithZeros(charCodes) ==
    IF Len(charCodes) < MAX_STRING_LENGTH
    THEN charCodes \o [i \in 1..(MAX_STRING_LENGTH - Len(charCodes)) |-> 0]
    ELSE charCodes

\* the array literal with the character codes cut off after MAX_STRING_LENGTH elements
StrReplacementTruncated(raw) ==
    ArrayLiteral(MAX_STRING_LENGTH, SubSeq(PadWithZeros(Unescape(raw)), 1, MAX_STRING_LENGTH))

\* the replacement text of one @str literal
StrReplacement(raw) == ArrayLiteral(MAX_STRING_LENGTH, PadWithZeros(Unescape(raw)))

\* for (const match of strMatches) { ... source = source.replace(match[0], replacement) }
StrRewrite(source) ==
    [i \in 1..Len(source) |->
        IF source[i].k = "str" THEN StrReplacement(source[i].name) ELSE source[i]]

RECURSIVE PreprocessShader(_, _, _, _, _)
RECURSIVE ImportLoop(_, _, _, _, _)

\* for (const match of importMatches) { ... }; reads is the log of readFileText calls
ImportLoop(matches, source, importedFiles, reads, files) ==
    IF matches = << >>
    THEN [source |-> source, importedFiles |-> importedFiles, reads |-> reads]
    ELSE LET filename == Head(matches)
         IN IF filename \in importedFiles
            THEN ImportLoop(Tail(matches),
                            ReplaceFirst(source, Import(filename), << AlreadyImported(filename) >>),
                            importedFiles, reads, files)
            ELSE LET marked == importedFiles \cup {filename}
                     processedImport ==
                         PreprocessShader(files[filename], marked, FALSE,
                                          Append(reads, filename), files)
                 IN ImportLoop(Tail(matches),
                               ReplaceFirst(source, Import(filename),
                                            << ImportedFrom(filename) >> \o processedImport.code),
                               ImportedFilesAfterCall(marked, processedImport.importedFiles),
                               processedImport.reads, files)

PreprocessShader(source, importedFiles, isTopLevel, reads, files) ==
    LET inlined  == ImportLoop(ImportMatches(source), source, importedFiles, reads, files)
        metadata == Metadata(inlined.source)
        hasStruct == HasStruct(inlined.source)
        fields   == GameStateFields(inlined.source)
        \* Remove GameState struct from source since we added it to header
        body     == IF isTopLevel /\ hasStruct
                    THEN ReplaceFirst(inlined.source, FirstStruct(inlined.source), << >>)
                    ELSE inlined.source
    IN [ code     |-> StrRewrite(Rewrite(body, metadata)),
         header   |-> IF isTopLevel THEN Header(metadata, hasStruct, fields) ELSE NoHeader,
         metadata |-> metadata,
         importedFiles |-> inlined.importedFiles,
         reads    |-> inlined.reads ]

(***************************************************************************)
(* setupBuffers, the bind group layouts of loadGame, setupBindGroups.      *)
(***************************************************************************)
\* SetupBuffers with the osc region placed right after the state, over the audio counters
SetupBuffersOscOverAudio(alignedStateSize, count) ==
    LET buttonSize    == 12 * 4
        floatDataSize == 8 * 4
        audioSize     == count * 4
        oscSize       == 64 * 4
        keysSize      == 194 * 4
        totalSizeUnaligned ==
            buttonSize + floatDataSize + alignedStateSize + audioSize + oscSize + keysSize
        oscOffset     == buttonSize + floatDataSize + alignedStateSize
    IN [ totalSize |-> CeilTo(totalSizeUnaligned, 16),
         bufferOffsets |->
           [ buttons |-> 0,
             floats  |-> buttonSize,
             state   |-> buttonSize + floatDataSize,
             audio   |-> buttonSize + floatDataSize + alignedStateSize,
             osc     |-> oscOffset,
             keys    |-> oscOffset + 64 * 4 ] ]

\* SetupBuffers for a host block that ends after the audio counters, without the osc
\* and keys regions
SetupBuffersWithoutOscAndKeys(alignedStateSize, count) ==
    LET buttonSize    == 12 * 4
        floatDataSize == 8 * 4
        audioSize     == count * 4
        totalSizeUnaligned == buttonSize + floatDataSize + alignedStateSize + audioSize
        oscOffset     == buttonSize + floatDataSize + alignedStateSize + audioSize
    IN [ totalSize |-> CeilTo(totalSizeUnaligned, 16),
         bufferOffsets |->
           [ buttons |-> 0,
             floats  |-> buttonSize,
             state   |-> buttonSize + floatDataSize,
             audio   |-> buttonSize + floatDataSize + alignedStateSize,
             osc     |-> oscOffset,
             keys    |-> oscOffset ] ]

SetupBuffers(alignedStateSize, count) ==
    LET buttonSize    == 12 * 4
        floatDataSize == 8 * 4
        audioSize     == count * 4
        oscSize       == 64 * 4
        keysSize      == 194 * 4
        totalSizeUnaligned ==
            buttonSize + floatDataSize + alignedStateSize + audioSize + oscSize + keysSize
        oscOffset     == buttonSize + floatDataSize + alignedStateSize + audioSize
    IN [ totalSize |-> CeilTo(totalSizeUnaligned, 16),
         bufferOffsets |->
           [ buttons |-> 0,
             floats  |-> buttonSize,
             state   |-> buttonSize + floatDataSize,
             audio   |-> buttonSize + floatDataSize + alignedStateSize,
             osc     |-> oscOffset,
             keys    |-> oscOffset + 64 * 4 ] ]

\* the canvas of a game without @set_size
CanvasWidth == 800
CanvasHeight == 600

RECURSIVE Log2(_)
Log2(n) == IF n < 2 THEN 0 ELSE 1 + Log2(n \div 2)

\* the 32 bits setFloat32 stores for a whole number 0 <= f < 2^24, read as a u32
BitsOfFloat(f) ==
    IF f = 0 THEN 0
    ELSE LET e == Log2(f)
         IN (127 + e) * (2 ^ 23) + (f - 2 ^ e) * (2 ^ (23 - e))

\* the words of initData that setupBuffers sets before it writes initData to the
\* engine buffer: byte offset |-> bits
InitData(offsets) ==
    LET written == << [offset |-> offsets.floats + 8,  value |-> BitsOfFloat(CanvasWidth)],
                      [offset |-> offsets.floats + 12, value |-> BitsOfFloat(CanvasHeight)],
                      [offset |-> offsets.state + 0,   value |-> BitsOfFloat(CanvasWidth \div 2)],
                      [offset |-> offsets.state + 4,   value |-> BitsOfFloat(CanvasHeight \div 2)] >>
    IN { w \in Range(written) : w.value # 0 }

\* the word of the engine buffer at a byte offset right after setupBuffers
InitialWord(data, offset) ==
    IF \E w \in data : w.offset = offset
    THEN (CHOOSE w \in data : w.offset = offset).value ELSE 0

\* the audio counters right after setupBuffers
InitialAudio(data, offsets, count) ==
    [i \in 1..count |-> InitialWord(data, offsets.audio + 4 * (i - 1))]

\* renderGroup0Entries of loadGame
RenderGroup0Entries(nTextureFiles, nVideoFiles, nCameraIndices) ==
    LET jsVideoBase  == nTextureFiles + 1
        jsCameraBase == nTextureFiles + nVideoFiles + 1
    IN << Binding(0, 0, "sampler", 0) >>
       \o [i \in 1..nTextureFiles |-> Binding(0, (i - 1) + 1, "texture", i - 1)]
       \o [i \in 1..nVideoFiles |-> Binding(0, jsVideoBase + (i - 1), "video", i - 1)]
       \o [i \in 1..nCameraIndices |-> Binding(0, jsCameraBase + (i - 1), "camera", i - 1)]

\* modelGroup2Entries of loadGame, modelEntries of setupBindGroups: two per loaded model
ModelEntries(nModels) ==
    [j \in 1..(2 * nModels) |->
        LET i == (j - 1) \div 2
            bindingBase == 1 + i * 2
        IN IF j % 2 = 1 THEN Binding(2, bindingBase, "positions", i)
           ELSE Binding(2, bindingBase + 1, "normals", i)]

\* a GPU object a field may hold: absent (null / undefined) or created from entries
Absent == [exists |-> FALSE, entries |-> << >>]
Created(entries) == [exists |-> TRUE, entries |-> entries]

\* group0Entries of setupBindGroups
Group0Entries(nTextures, nVideoTextures, nCameraTextures, nTextureFiles, nVideoFiles) ==
    LET bgVideoBase  == nTextureFiles + 1
        bgCameraBase == nTextureFiles + nVideoFiles + 1
    IN << Binding(0, 0, "sampler", 0) >>
       \o [i \in 1..nTextures |-> Binding(0, (i - 1) + 1, "texture", i - 1)]
       \o [i \in 1..nVideoTextures |-> Binding(0, bgVideoBase + (i - 1), "video", i - 1)]
       \o [i \in 1..nCameraTextures |-> Binding(0, bgCameraBase + (i - 1), "camera", i - 1)]

\* this.renderBindGroup2 after setupBindGroups: assigned only when there are models
BindGroup2After(old, layout2, nModels) ==
    IF layout2.exists /\ nModels > 0 THEN Created(ModelEntries(nModels)) ELSE old

(***************************************************************************)
(* parseOBJ and loadModels.  An OBJ text is a sequence of lines; a line is *)
(* a `v x y z`, a `vn x y z` or an `f a b c ...` whose vertices are        *)
(* `v/vt/vn` references (0 where a component is absent).                   *)
(***************************************************************************)
\* a vector of three numbers; unit: it has been divided by its own length
Vec3(x, y, z) == [x |-> x, y |-> y, z |-> z, unit |-> FALSE]

VLine(x, y, z)  == [k |-> "v",  xyz |-> Vec3(x, y, z), refs |-> << >>]
VnLine(x, y, z) == [k |-> "vn", xyz |-> Vec3(x, y, z), refs |-> << >>]
FaceRef(v, vn) == [v |-> v, vt |-> 0, vn |-> vn]
FLine(refs) == [k |-> "f", xyz |-> Vec3(0, 0, 0), refs |-> refs]

Sub(a, b) == Vec3(a.x - b.x, a.y - b.y, a.z - b.z)
Cross(edge1, edge2) ==
    Vec3(edge1.y * edge2.z - edge1.z * edge2.y,
         edge1.z * edge2.x - edge1.x * edge2.z,
         edge1.x * edge2.y - edge1.y * edge2.x)

RECURSIVE SumVec(_)
SumVec(vs) ==
    IF vs = << >> THEN Vec3(0, 0, 0)
    ELSE LET rest == SumVec(Tail(vs))
         IN Vec3(Head(vs).x + rest.x, Head(vs).y + rest.y, Head(vs).z + rest.z)

\* n / len when len > 0
Normalize(n) == IF n.x = 0 /\ n.y = 0 /\ n.z = 0 THEN n ELSE [n EXCEPT !.unit = TRUE]

\* array[idx] of a JavaScript array: undefined outside 0..length-1
At(array, idx) ==
    IF idx >= 0 /\ idx < Len(array) THEN [defined |-> TRUE, value |-> array[idx + 1]]
    ELSE [defined |-> FALSE, value |-> Vec3(0, 0, 0)]

\* the lines parseOBJ takes for positions, normals and faces, in file order
LinesOf(objText, kind) == SelectSeq(objText, LAMBDA line : line.k = kind)

\* indices of parseOBJ: the position component of the first three vertices of each
\* face line, minus one
FaceIndices(objText) ==
    LET faces == SelectSeq(objText, LAMBDA line : line.k = "f" /\ Len(line.refs) >= 3)
    IN [j \in 1..(3 * Len(faces)) |-> faces[((j - 1) \div 3) + 1].refs[((j - 1) % 3) + 1].v - 1]

\* the cross product of the edges of the t-th face
FaceNormal(positions, indices, t) ==
    Cross(Sub(positions[indices[3 * t - 1] + 1], positions[indices[3 * t - 2] + 1]),
          Sub(positions[indices[3 * t] + 1], positions[indices[3 * t - 2] + 1]))

\* the places of `indices` that refer to the p-th position
Corners(indices, p) ==
    SelectSeq([j \in 1..Len(indices) |-> j], LAMBDA j : indices[j] = p - 1)

\* tempNormals[p], normalised: the sum of the normals of the faces at these corners
NormalOf(positions, indices, corners) ==
    Normalize(SumVec([c \in 1..Len(corners) |->
                        FaceNormal(positions, indices, ((corners[c] - 1) \div 3) + 1)]))

\* the normals parseOBJ computes for a file without vn lines: per position, the sum of
\* the cross products of the faces it is a corner of, normalised
ComputedNormals(positions, indices) ==
    [p \in 1..Len(positions) |-> NormalOf(positions, indices, Corners(indices, p))]

\* the xyz of v or vn lines
Xyz(lines) == [i \in 1..Len(lines) |-> lines[i].xyz]

\* the expansion of parseOBJ: positions[idx] and normals[idx] for every idx of indices
Expand(positions, normals, indices, threw) ==
    [ threw       |-> threw,
      positions   |-> [j \in 1..Len(indices) |-> At(positions, indices[j])],
      normals     |-> [j \in 1..Len(indices) |-> At(normals, indices[j])],
      vertexCount |-> Len(indices) ]

\* parseOBJ after its loop over the lines; threw: computing the normals read a
\* coordinate of an undefined position
ParseLists(positions, fileNormals, indices) ==
    IF fileNormals # << >> THEN Expand(positions, fileNormals, indices, FALSE)
    ELSE IF \E j \in 1..Len(indices) : ~At(positions, indices[j]).defined
         THEN Expand(positions, << >>, indices, TRUE)
         ELSE Expand(positions, ComputedNormals(positions, indices), indices, FALSE)

\* parseOBJ(objText)
ParseOBJ(objText) ==
    ParseLists(Xyz(LinesOf(objText, "v")), Xyz(LinesOf(objText, "vn")), FaceIndices(objText))

\* the OBJ text readFileText gives for a model file: its text if the game has one,
\* otherwise one triangle
TriangleObj == << VLine(0, 0, 0), VLine(1, 0, 0), VLine(0, 1, 0), FLine(<< FaceRef(1, 0), FaceRef(2, 0), FaceRef(3, 0) >>) >>
ReadFileText(g, filename) == IF filename \in DOMAIN g THEN g[filename] ELSE TriangleObj

\* [p[0], p[1], p[2], 0.0]
Lanes(p) == [x |-> p.value.x, y |-> p.value.y, z |-> p.value.z, w |-> 0, unit |-> p.value.unit]

\* positionsData / normalsData of loadModels
Flat(vectors) == [j \in 1..Len(vectors) |-> Lanes(vectors[j])]

\* p[0] of an undefined p throws
FlatThrows(vectors) == \E j \in 1..Len(vectors) : ~vectors[j].defined

\* loadModels over the parsed files: the models pushed, this.modelVertexCount, and
\* whether it rejected (a file that cannot be read, or a parseOBJ or flatMap that threw)
StoreModels(parsed, files, missing) ==
    LET bad    == { i \in 1..Len(files) :
                      \/ files[i] \in missing
                      \/ parsed[i].threw
                      \/ FlatThrows(parsed[i].positions)
                      \/ FlatThrows(parsed[i].normals) }
        pushed == IF bad = {} THEN Len(files) ELSE Least(bad) - 1
    IN [ models |-> [i \in 1..pushed |->
                        [positionsBuffer |-> Flat(parsed[i].positions),
                         normalsBuffer   |-> Flat(parsed[i].normals)]],
         modelVertexCount |->
             IF pushed < Len(files) /\ files[pushed + 1] \notin missing
                                    /\ ~parsed[pushed + 1].threw
             THEN parsed[pushed + 1].vertexCount
             ELSE IF pushed = 0 THEN 0 ELSE parsed[pushed].vertexCount,
         rejected |-> bad # {} ]

\* loadModels over this.modelFiles
LoadModels(files, g, missing) ==
    StoreModels([i \in 1..Len(files) |-> ParseOBJ(ReadFileText(g, files[i]))], files, missing)

(***************************************************************************)
(* The engine: constructor, loadGame, update, setOsc.                      *)
(***************************************************************************)
NoResult == [code |-> << >>, header |-> NoHeader,
             metadata |-> [sounds |-> << >>, textures |-> << >>, videos |-> << >>,
                           cameras |-> << >>, oscParams |-> << >>, models |-> << >>,
                           stateSize |-> 0, stateAlignment |-> 0],
             importedFiles |-> {}, reads |-> << >>]

NoOffsets == [buttons |-> 0, floats |-> 0, state |-> 0, audio |-> 0, osc |-> 0, keys |-> 0]

NoWrites == [done |-> FALSE,
             input |-> [offset |-> 0, size |-> 0, buttons |-> 0, time |-> 0, delta_time |-> 0,
                        screen_width |-> 0, screen_height |-> 0, mouse |-> 0],
             osc |-> [offset |-> 0, size |-> 0],
             keys |-> [offset |-> 0, size |-> 0],
             audioCopy |-> [enabled |-> FALSE, offset |-> 0, size |-> 0]]

NoCall == [n |-> 0, path |-> << >>, value |-> 0]

\* a field that was never assigned
Undefined == [defined |-> FALSE]

\* no loadGame is in progress
NotLoading == "none"

\* the staging buffer: not mapped, or a mapAsync of it has not been answered yet
Available == "available"
Pending == "pending"

\* the state after new WGSLGameEngine(canvas), before init(gamePath)
Constructed ==
    /\ loads = 0
    /\ result = NoResult
    /\ stateSize = 0 /\ audioCount = 0
    /\ textureFiles = << >> /\ videoFiles = << >> /\ cameraIndices = << >> /\ modelFiles = << >>
    /\ oscParams = << >> /\ oscValues = [i \in 0..63 |-> 0]
    /\ textures = 0 /\ videoTextures = 0 /\ cameraTextures = << >> /\ models = 0
    /\ soundBuffers = << >>
    /\ keys = [i \in 0..193 |-> 0] /\ buttons = [i \in 0..11 |-> 0]
    /\ mouseX = 0 /\ mouseY = 0 /\ mouseClickX = 0 /\ mouseClickY = 0
    /\ running = FALSE
    /\ currentPath = Undefined
    /\ reloadCalls = 0 /\ loading = NotLoading /\ frameInLoad = FALSE /\ loadError = FALSE
    /\ totalSize = 0 /\ bufferOffsets = NoOffsets
    /\ renderBindGroupLayout0 = Absent /\ renderBindGroupLayout2 = Absent
    /\ renderBindGroup0 = Absent /\ renderBindGroup2 = Absent
    /\ frameWrites = NoWrites
    /\ lastCall = NoCall
    /\ modelBuffers = << >> /\ modelVertexCount = 0
    /\ initData = {} /\ audio = << >> /\ staged = << >> /\ mapping = Available
    /\ frameOps = << >> /\ playRequests = << >> /\ owed = {}

\* nothing is pressed
NoPress == [held |-> FALSE, pressedOnce |-> FALSE, x |-> 0, y |-> 0]
Untouched == pressed = {} /\ pointer = NoPress

\* every file of the game can be read; no camera is attached
AllReadable == unreadable = {} /\ videoDevices = {}

\* loadCameras creating a texture only for the cameras that can be opened
LoadCamerasSkippingUnopenable(indices, devices) ==
    [i \in 1..Len(SelectSeq(indices, LAMBDA c : c \in devices)) |->
        [width |-> 640, height |-> 480]]

\* loadCameras: one texture per camera index, of the size of the device's frames, or
\* 1x1 when the device cannot be opened
LoadCameras(indices, devices) ==
    [i \in 1..Len(indices) |->
        IF indices[i] \in devices THEN [width |-> 640, height |-> 480]
        ELSE [width |-> 1, height |-> 1]]

\* loadSounds: the data of each sound file, or null for a file that cannot be read
LoadSounds(files, missing) == [i \in 1..Len(files) |-> files[i] \notin missing]

\* loadGame(gamePath) where the URL resolves to the files g
LoadGame(g) ==
    LET r        == PreprocessShader(g[MainFile], {}, TRUE, << >>, g)
        metadata == r.metadata
        buffers  == SetupBuffers(metadata.stateSize, Len(metadata.sounds))
        nModels  == Len(metadata.models)      \* loadModels: one entry per model file
        layout2  == IF Len(ModelEntries(nModels)) > 0
                    THEN Created(ModelEntries(nModels)) ELSE Absent
    IN /\ result' = r
       /\ loads' = loads + 1
       /\ audioCount' = Len(metadata.sounds)
       /\ stateSize' = metadata.stateSize
       /\ textureFiles' = metadata.textures
       /\ modelFiles' = metadata.models
       /\ videoFiles' = metadata.videos
       /\ cameraIndices' = metadata.cameras
       /\ oscParams' = metadata.oscParams
       /\ oscValues' = [i \in 0..63 |-> 0]
       /\ textures' = Len(metadata.textures)          \* loadTextures
       /\ videoTextures' = Len(metadata.videos)       \* loadVideos
       /\ cameraTextures' = LoadCameras(metadata.cameras, videoDevices)
       /\ soundBuffers' = LoadSounds(metadata.sounds, unreadable)
       /\ models' = nModels                           \* loadModels
       /\ totalSize' = buffers.totalSize
       /\ bufferOffsets' = buffers.bufferOffsets
       /\ renderBindGroupLayout0' =
              Created(RenderGroup0Entries(Len(metadata.textures), Len(metadata.videos),
                                          Len(metadata.cameras)))
       /\ renderBindGroupLayout2' = layout2
       /\ renderBindGroup0' =
              Created(Group0Entries(Len(metadata.textures), Len(metadata.videos),
                                    Len(metadata.cameras), Len(metadata.textures),
                                    Len(metadata.videos)))
       /\ renderBindGroup2' = BindGroup2After(renderBindGroup2, layout2, nModels)
       /\ modelBuffers' = LoadModels(modelFiles', g, unreadable).models
       /\ modelVertexCount' = LoadModels(modelFiles', g, unreadable).modelVertexCount
       /\ initData' = InitData(bufferOffsets')                      \* setupBuffers
       /\ audio' = InitialAudio(initData', bufferOffsets', audioCount')
       /\ staged' = [i \in 1..audioCount' |-> 0]
       /\ mapping' = Available

\* the number of files of a list that are read before one cannot be read
RECURSIVE ReadablePrefix(_, _)
ReadablePrefix(files, missing) ==
    IF files = << >> \/ Head(files) \in missing THEN 0
    ELSE 1 + ReadablePrefix(Tail(files), missing)

AllRead(files, missing) == ReadablePrefix(files, missing) = Len(files)

\* loadTextures, loadVideos and loadModels let a failed readFile reject loadGame, and
\* loadModels an OBJ text it cannot store; loadCameras and loadSounds catch their failures
LoadRejects(g) ==
    LET metadata == PreprocessShader(g[MainFile], {}, TRUE, << >>, g).metadata
    IN ~(/\ AllRead(metadata.textures, unreadable)
         /\ AllRead(metadata.videos, unreadable)
         /\ ~LoadModels(metadata.models, g, unreadable).rejected)

\* loadGame(gamePath) up to the loader that rejects: the metadata fields are set, the
\* loaders before it have run, and nothing after it has
RejectedLoad(g) ==
    LET r        == PreprocessShader(g[MainFile], {}, TRUE, << >>, g)
        metadata == r.metadata
        texturesOk == AllRead(metadata.textures, unreadable)
        videosOk   == texturesOk /\ AllRead(metadata.videos, unreadable)
    IN /\ result' = r
       /\ audioCount' = Len(metadata.sounds)
       /\ stateSize' = metadata.stateSize
       /\ textureFiles' = metadata.textures
       /\ modelFiles' = metadata.models
       /\ videoFiles' = metadata.videos
       /\ cameraIndices' = metadata.cameras
       /\ oscParams' = metadata.oscParams
       /\ oscValues' = [i \in 0..63 |-> 0]
       /\ textures' = ReadablePrefix(metadata.textures, unreadable)
       /\ videoTextures' = IF texturesOk THEN ReadablePrefix(metadata.videos, unreadable)
                           ELSE videoTextures
       /\ cameraTextures' = IF videosOk THEN LoadCameras(metadata.cameras, videoDevices)
                            ELSE cameraTextures
       /\ modelBuffers' = IF videosOk THEN LoadModels(modelFiles', g, unreadable).models
                          ELSE modelBuffers
       /\ models' = IF videosOk THEN Len(modelBuffers') ELSE models
       /\ modelVertexCount' = IF videosOk
                              THEN LoadModels(modelFiles', g, unreadable).modelVertexCount
                              ELSE modelVertexCount
       /\ UNCHANGED << bufferVars, loads, soundBuffers, totalSize, bufferOffsets, renderBindGroupLayout0,
                       renderBindGroupLayout2, renderBindGroup0, renderBindGroup2 >>

\* init(gamePath): the first load of the game the engine was created for
InitGame ==
    /\ loads = 0 /\ ~loadError
    /\ IF LoadRejects(game)
       THEN RejectedLoad(game) /\ loadError' = TRUE /\ UNCHANGED running
       ELSE LoadGame(game) /\ running' = TRUE /\ UNCHANGED loadError
    /\ UNCHANGED << frameVars, game, frameWrites, lastCall, inputVars, loadVars, envVars >>

\* setShader(path): load another game into the running engine
SetShader(g) ==
    /\ loads >= 1 /\ loads < MaxLoads
    /\ game' = g
    /\ LoadGame(g)
    /\ UNCHANGED << frameVars, frameWrites, lastCall, running, loadError, inputVars, loadVars,
                    envVars >>

\* the host-block accesses update() enqueues in one frame
FrameWrites(offsets, count) ==
    [ done  |-> TRUE,
      input |-> [offset |-> 0, size |-> 48 + 32, buttons |-> 0 * 4, time |-> 48,
                 delta_time |-> 52, screen_width |-> 56, screen_height |-> 60, mouse |-> 64],
      osc   |-> [offset |-> offsets.osc, size |-> 64 * 4],
      keys  |-> [offset |-> offsets.keys, size |-> 194 * 4],
      audioCopy |-> IF count > 0
                    THEN [enabled |-> TRUE, offset |-> offsets.audio, size |-> count * 4]
                    ELSE [enabled |-> FALSE, offset |-> 0, size |-> 0] ]

\* one call the frame loop makes on the device, its queue, an encoder or a buffer; ok:
\* the device carries it out
Op(op, what, at, ok) == [op |-> op, what |-> what, at |-> at, ok |-> ok]

\* updateDynamicTextures: one upload per video and per camera that was opened
DynamicTextureOps(nVideos, cameras) ==
    [i \in 1..nVideos |-> Op("copyExternalImageToTexture", "video", i - 1, TRUE)]
    \o [i \in 1..Len(SelectSeq(cameras, LAMBDA c : c # [width |-> 1, height |-> 1])) |->
          Op("copyExternalImageToTexture", "camera", i - 1, TRUE)]

\* update() writing the keys after it has encoded the compute pass
UpdateOpsKeysLate(offsets, count, free) ==
    << Op("writeBuffer", "input", 0, TRUE),
       Op("writeBuffer", "osc", offsets.osc, TRUE),
       Op("dispatchWorkgroups", "update", 1, free),
       Op("writeBuffer", "keys", offsets.keys, TRUE) >>
    \o (IF count > 0 THEN << Op("copyBufferToBuffer", "audio", offsets.audio, free) >>
        ELSE << >>)
    \o << Op("submit", "update", 0, free) >>
    \o (IF count > 0 THEN << Op("mapAsync", "staging", 0, free) >> ELSE << >>)

\* the calls of update() after updateDynamicTextures; free: the staging buffer is not
\* in a mapping, so the device accepts a command buffer that copies into it and a
\* mapAsync of it
UpdateOps(offsets, count, free) ==
    << Op("writeBuffer", "input", 0, TRUE),
       Op("writeBuffer", "osc", offsets.osc, TRUE),
       Op("writeBuffer", "keys", offsets.keys, TRUE),
       Op("dispatchWorkgroups", "update", 1, free) >>
    \o (IF count > 0 THEN << Op("copyBufferToBuffer", "audio", offsets.audio, free) >>
        ELSE << >>)
    \o << Op("submit", "update", 0, free) >>
    \o (IF count > 0 THEN << Op("mapAsync", "staging", 0, free) >> ELSE << >>)

\* the calls of render()
RenderOps(vertexCount) ==
    << Op("draw", "render", IF vertexCount > 0 THEN vertexCount ELSE 3, TRUE),
       Op("submit", "render", 0, TRUE) >>

\* the audio counters after update_game has run: one more for every sound it triggers
Compute(counters, triggers) ==
    [i \in 1..Len(counters) |-> counters[i] + (IF i \in triggers THEN 1 ELSE 0)]

\* a copy that starts at the osc offset and so reads the osc slots only
CopyAudioFromOsc(counters, osc, count) ==
    [i \in 1..count |-> IF i <= 64 THEN BitsOfFloat(osc[i - 1]) ELSE 0]

\* the `count` words copyBufferToBuffer reads from the audio offset on: the counters,
\* then the osc slots behind them
CopyAudio(counters, osc, count) ==
    [i \in 1..count |-> IF i <= Len(counters) THEN counters[i]
                        ELSE IF i - Len(counters) <= 64
                             THEN BitsOfFloat(osc[i - Len(counters) - 1]) ELSE 0]

\* gameLoop(): update() then render(), for an update_game that triggers the sounds
\* `triggers`
GameLoop(triggers) ==
    LET free     == audioCount = 0 \/ mapping = Available
        computed == IF free THEN Compute(audio, triggers) ELSE audio
    IN /\ running
       /\ triggers \subseteq 1..Len(audio)
       /\ frameWrites' = FrameWrites(bufferOffsets, audioCount)
       /\ frameInLoad' = (loading # NotLoading)
       /\ frameOps' = DynamicTextureOps(videoTextures, cameraTextures)
                      \o UpdateOps(bufferOffsets, audioCount, free)
                      \o RenderOps(modelVertexCount)
       /\ audio' = computed
       /\ staged' = IF free /\ audioCount > 0 THEN CopyAudio(computed, oscValues, audioCount)
                    ELSE staged
       /\ mapping' = IF audioCount > 0 THEN Pending ELSE mapping
       /\ owed' = IF free THEN owed \cup triggers ELSE owed
       /\ UNCHANGED << modelVars, initData, playRequests, game, loads, result, stateSize,
                       audioCount, textureFiles, videoFiles,
                       cameraIndices, modelFiles, oscParams, oscValues, textures, videoTextures,
                       cameraTextures, models, totalSize, bufferOffsets, renderBindGroupLayout0,
                       renderBindGroupLayout2, renderBindGroup0, renderBindGroup2, lastCall,
                       soundBuffers, running, loadError, inputVars, currentPath, reloadCalls,
                       loading, envVars >>

\* a frame of a game whose update_game triggers no sound
Update == GameLoop({})

\* a callback that requests the playbacks and leaves the counters as they are
ReadBackWithoutReset(words, count) ==
    LET word(i)  == IF i <= Len(words) THEN words[i] ELSE 0
        positive == { i \in 1..count : word(i) > 0 }
    IN [ requests |-> [k \in 1..Cardinality(positive) |->
                          (CHOOSE i \in positive :
                              Cardinality({ j \in positive : j <= i }) = k) - 1],
         zeros    |-> [i \in 1..count |-> word(i)] ]

\* what the callback of mapAsync does with the `count` mapped words: playSound(i) for
\* every i whose word is positive, in ascending order, and zeros for the counters
ReadBack(words, count) ==
    LET word(i)  == IF i <= Len(words) THEN words[i] ELSE 0
        positive == { i \in 1..count : word(i) > 0 }
    IN [ requests |-> [k \in 1..Cardinality(positive) |->
                          (CHOOSE i \in positive :
                              Cardinality({ j \in positive : j <= i }) = k) - 1],
         zeros    |-> [i \in 1..count |-> 0] ]

\* the mapAsync of the staging buffer resolves and its callback runs
MapComplete ==
    LET back == ReadBack(staged, audioCount)
    IN /\ mapping = Pending
       /\ playRequests' = back.requests
       /\ mapping' = Available
       /\ audio' = [i \in 1..Len(audio) |->
                      IF i <= Len(back.zeros) THEN back.zeros[i] ELSE audio[i]]
       /\ frameOps' = Append(frameOps, Op("writeBuffer", "audio", bufferOffsets.audio, TRUE))
       /\ owed' = owed \ { r + 1 : r \in Range(back.requests) }
       /\ UNCHANGED << modelVars, initData, staged, game, loads, result, stateSize,
                       audioCount, textureFiles, videoFiles,
                       cameraIndices, modelFiles, oscParams, oscValues, textures, videoTextures,
                       cameraTextures, models, totalSize, bufferOffsets, renderBindGroupLayout0,
                       renderBindGroupLayout2, renderBindGroup0, renderBindGroup2, lastCall,
                       soundBuffers, running, loadError, inputVars, currentPath, reloadCalls,
                       loading, envVars, frameWrites, frameInLoad >>

(***************************************************************************)
(* setOsc.                                                                 *)
(***************************************************************************)
\* path.startsWith(prefix)
StartsWith(path, prefix) ==
    Len(path) >= Len(prefix) /\ SubSeq(path, 1, Len(prefix)) = prefix

\* path.slice(k)
Slice(path, k) == SubSeq(path, k + 1, Len(path))

DecimalDigits == {"0", "1", "2", "3", "4", "5", "6", "7", "8", "9"}
HexDigits == DecimalDigits \cup {"a", "b", "c", "d", "e", "f"}

DigitValue(c) ==
    CASE c = "0" -> 0 [] c = "1" -> 1 [] c = "2" -> 2 [] c = "3" -> 3 [] c = "4" -> 4
      [] c = "5" -> 5 [] c = "6" -> 6 [] c = "7" -> 7 [] c = "8" -> 8 [] c = "9" -> 9
      [] c = "a" -> 10 [] c = "b" -> 11 [] c = "c" -> 12 [] c = "d" -> 13
      [] c = "e" -> 14 [] c = "f" -> 15

\* the longest prefix of s whose characters are digits of the radix
RECURSIVE DigitPrefix(_, _)
DigitPrefix(s, digits) ==
    IF s = << >> \/ Head(s) \notin digits THEN << >>
    ELSE << Head(s) >> \o DigitPrefix(Tail(s), digits)

RECURSIVE DigitsValue(_, _)
DigitsValue(s, radix) ==
    IF s = << >> THEN 0
    ELSE DigitsValue(SubSeq(s, 1, Len(s) - 1), radix) * radix + DigitValue(s[Len(s)])

RECURSIVE StripLeadingSpace(_)
StripLeadingSpace(s) ==
    IF s # << >> /\ Head(s) = " " THEN StripLeadingSpace(Tail(s)) ELSE s

\* parseInt(s) without a radix: leading white space, a sign, a 0x prefix, then the
\* longest run of digits; NaN when that run is empty
ParseInt(s) ==
    LET t        == StripLeadingSpace(s)
        negative == t # << >> /\ Head(t) = "-"
        u        == IF t # << >> /\ Head(t) \in {"-", "+"} THEN Tail(t) ELSE t
        hex      == Len(u) >= 2 /\ u[1] = "0" /\ u[2] \in {"x", "X"}
        v        == IF hex THEN Slice(u, 2) ELSE u
        digits   == DigitPrefix(v, IF hex THEN HexDigits ELSE DecimalDigits)
        n        == DigitsValue(digits, IF hex THEN 16 ELSE 10)
    IN [nan |-> digits = << >>, value |-> IF negative THEN 0 - n ELSE n]

\* array[i] = v on a Float32Array: a write outside the array is ignored
WriteSlot(values, i, v) == IF i \in DOMAIN values THEN [values EXCEPT ![i] = v] ELSE values

UPrefix == << "/", "u", "/" >>

\* this.oscValues after setOsc(path, value)
SetOscValues(values, params, path, value) ==
    IF ~StartsWith(path, UPrefix) THEN values
    ELSE LET name == Slice(path, 3)
             idx  == IndexOf(params, name)
         IN IF idx >= 0 THEN WriteSlot(values, idx, value)
            ELSE LET numIdx == ParseInt(name)
                 IN IF ~numIdx.nan /\ numIdx.value >= 0 /\ numIdx.value < 64
                    THEN WriteSlot(values, numIdx.value, value)
                    ELSE values

SetOsc(path, value) ==
    /\ loads >= 1
    /\ lastCall.n < MaxOscCalls
    /\ lastCall' = [n |-> lastCall.n + 1, path |-> path, value |-> value]
    /\ oscValues' = SetOscValues(oscValues, oscParams, path, value)
    /\ UNCHANGED << modelVars, bufferVars, frameVars, game, loads, result, stateSize,
                    audioCount, textureFiles, videoFiles,
                    cameraIndices, modelFiles, oscParams, textures, videoTextures,
                    cameraTextures, models, totalSize, bufferOffsets, renderBindGroupLayout0,
                    renderBindGroupLayout2, renderBindGroup0, renderBindGroup2, frameWrites,
                    soundBuffers, running, loadError, inputVars, loadVars, envVars >>

(***************************************************************************)
(* The games the engine is loaded with.                                    *)
(***************************************************************************)
DigitChar == << "0", "1", "2", "3", "4", "5", "6", "7", "8", "9" >>

\* the i-th name of a family of generated asset names, 1 <= i <= 9
Name(c, i) == << c, DigitChar[i + 1] >>

\* a game that is the single file main.wgsl
MainOnly(body) == [f \in {MainFile} |-> body]

RecognisedTypes == {"u32", "i32", "f32", "vec2f", "vec3f", "vec4f"}

\* the fields of the generated structs: one scalar of each size class, an unrecognised
\* type, and arrays of each element size
FieldTypes ==
    { Field(t, 0) : t \in {"u32", "f32", "vec2f", "vec3f", "vec4f", "mat2x2f"} }
    \cup { Field(t, ArrayCount) : t \in {"i32", "vec2f", "vec3f", "vec4f"} }

SoundDirs(k) == [i \in 1..k |-> Dir("sound", Name("s", i))]

\* src/examples/bob/main.wgsl and src/examples/snake/main.wgsl
BobFields == << Field("vec2f", 0), Field("vec2f", 0), Field("u32", 0) >>
SnakeFields ==
    << Field("i32", 400), Field("i32", 400), Field("u32", 0), Field("i32", 10),
       Field("i32", 10), Field("i32", 0), Field("i32", 0), Field("i32", 0), Field("i32", 0),
       Field("f32", 0), Field("u32", 0), Field("u32", 0), Field("u32", 0), Field("u32", 0),
       Field("u32", 0) >>
HelpersFile == << "h", "e", "l", "p", "e", "r", "s" >>
BobGame ==
    [f \in {MainFile, HelpersFile} |->
        IF f = MainFile
        THEN << Import(HelpersFile), Struct(BobFields), Dir("sound", Name("s", 1)),
                Dir("texture", Name("t", 1)) >>
        ELSE << >>]
SnakeGame == MainOnly(<< Struct(SnakeFields) >>)

\* games that differ in their GameState struct and in their number of sounds
LayoutGame(hasStruct, fs, k) ==
    MainOnly((IF hasStruct THEN << Struct(fs) >> ELSE << >>) \o SoundDirs(k))

InitLayout ==
    /\ \/ \E fs \in SeqsUpTo(FieldTypes, MaxFields), k \in {0, MaxSounds} :
              game = LayoutGame(TRUE, fs, k)
       \/ \E k \in 0..MaxSounds : game = LayoutGame(FALSE, << >>, k)
       \/ game \in {BobGame, SnakeGame}
    /\ Constructed /\ Untouched /\ AllReadable
NextLayout == InitGame \/ Update
SpecLayout == InitLayout /\ [][NextLayout]_vars

(***************************************************************************)
(* Properties of the host block layout (checked under SpecLayout).         *)
(***************************************************************************)
Loaded == loads >= 1

\* the struct has at least one field and every field type is one the calculator knows
AllRecognised(fields) ==
    /\ Len(fields) >= 1
    /\ \A i \in 1..Len(fields) : fields[i].t \in RecognisedTypes

\* the host's audio, osc and keys offsets are those of the members of the emitted
\* GameEngineHost struct
HostOffsetsMatchStruct ==
    LET members == result.header.hostMembers
    IN /\ HasMember(members, "audio") => bufferOffsets.audio = MemberOffset(members, "audio")
       /\ bufferOffsets.osc = MemberOffset(members, "osc")
       /\ bufferOffsets.keys = MemberOffset(members, "keys")

\* C1: for every GameState struct with fields of recognised types, the state size
\* computed by preprocessShader is the std430 size of the struct, and the host's
\* audio, osc and keys offsets are the offsets of these members of GameEngineHost.
C1_StateSizeIsStd430 ==
    (Loaded /\ result.header.hasGameState /\ AllRecognised(result.header.gameState))
    => /\ stateSize = WgslStructSize(result.header.gameState)
       /\ HostOffsetsMatchStruct

\* C2: setupBuffers places buttons at 0, the floats at 48, the state at 80, audio at
\* 80+S, osc at 80+S+4N, keys at 80+S+4N+256; the block is a multiple of 16 and holds
\* all regions; update() writes at exactly these offsets.
C2_BufferOffsets ==
    Loaded =>
    LET S == result.metadata.stateSize
        N == Len(result.metadata.sounds)
    IN /\ bufferOffsets.buttons = 0
       /\ bufferOffsets.floats = 48
       /\ bufferOffsets.state = 80
       /\ bufferOffsets.audio = 80 + S
       /\ bufferOffsets.osc = 80 + S + 4 * N
       /\ bufferOffsets.keys = 80 + S + 4 * N + 256
       /\ totalSize % 16 = 0
       /\ totalSize >= 80 + S + 4 * N + 256 + 776
       /\ frameWrites.done =>
            /\ frameWrites.input.offset = 0 /\ frameWrites.input.size = 80
            /\ frameWrites.input.buttons = 0
            /\ frameWrites.input.time = 48 /\ frameWrites.input.delta_time = 52
            /\ frameWrites.input.screen_width = 56 /\ frameWrites.input.screen_height = 60
            /\ frameWrites.input.mouse = 64
            /\ frameWrites.osc = [offset |-> 80 + S + 4 * N, size |-> 256]
            /\ frameWrites.keys = [offset |-> 80 + S + 4 * N + 256, size |-> 776]
            /\ frameWrites.audioCopy.enabled = (N > 0)
            /\ N > 0 => frameWrites.audioCopy = [enabled |-> TRUE, offset |-> 80 + S,
                                                 size |-> 4 * N]

\* a frame of the Bob demo has run: S = 24, N = 1
C2_Witness ==
    /\ frameWrites.done /\ stateSize = 24 /\ audioCount = 1
    /\ bufferOffsets.keys = 364 /\ totalSize = 1152

\* C3: without a GameState struct, the offsets at which the host reads the audio
\* counters and writes osc and keys are those of the members of the emitted struct.
C3_NoGameStateOffsetsMatch ==
    (Loaded /\ ~result.header.hasGameState) => HostOffsetsMatchStruct

\* C8 as stated: the GameState size is at least 16, a multiple of the struct
\* alignment, and the alignment is 4, 8 or 16.
C8_StateSizeAtLeast16 ==
    Loaded =>
        /\ result.metadata.stateSize >= 16
        /\ result.metadata.stateSize % result.metadata.stateAlignment = 0
        /\ result.metadata.stateAlignment \in {4, 8, 16}

\* C8 (amended): the GameState size is at least the struct alignment (so at least
\* 4), a multiple of the struct alignment, and exactly 16 when the source has no
\* GameState struct; the alignment is 4, 8 or 16.
C8_StateSizeAligned ==
    Loaded =>
        /\ result.metadata.stateSize >= result.metadata.stateAlignment
        /\ result.metadata.stateSize >= 4
        /\ result.metadata.stateSize % result.metadata.stateAlignment = 0
        /\ result.metadata.stateAlignment \in {4, 8, 16}
        /\ ~result.header.hasGameState => result.metadata.stateSize = 16

\* a struct of one scalar (src/examples: struct GameState { dummy: u32 }) has size 4
C8_Witness ==
    /\ Loaded /\ result.header.hasGameState
    /\ result.header.gameState = << Field("u32", 0) >>
    /\ result.metadata.stateSize = 4

\* the per-field sizes and alignments the claim lists
ListedSize(f) ==
    LET elem == IF f.t = "vec4f" THEN 16 ELSE IF f.t = "vec3f" THEN 12
                ELSE IF f.t = "vec2f" THEN 8 ELSE 4
        stride == IF f.t = "vec3f" THEN 16 ELSE elem
    IN IF f.n > 0 THEN f.n * stride ELSE elem

ListedAlign(f) ==
    IF f.t \in {"vec3f", "vec4f"} THEN 16 ELSE IF f.t = "vec2f" THEN 8 ELSE 4

ListedStateSize(fields) ==
    LET sum   == SumSeq([i \in 1..Len(fields) |-> ListedSize(fields[i])])
        align == CHOOSE a \in { ListedAlign(fields[i]) : i \in 1..Len(fields) } :
                     \A i \in 1..Len(fields) : ListedAlign(fields[i]) <= a
    IN CeilTo(sum, align)

\* C9: for a GameState of recognised field types the computed state size is the sum
\* of the per-field sizes rounded up to the largest member alignment; Bob's struct
\* gives 24 and each array<i32,400> of Snake contributes 1600 bytes.
C9_StateSizeIsSumRounded ==
    (Loaded /\ result.header.hasGameState /\ AllRecognised(result.header.gameState))
    => /\ stateSize = ListedStateSize(result.header.gameState)
       /\ result.header.gameState = BobFields => stateSize = 24
       /\ result.header.gameState = SnakeFields => stateSize = 2 * 1600 + 2 * 40 + 11 * 4

\* Snake has been loaded
C9_Witness ==
    /\ Loaded /\ result.header.gameState = SnakeFields /\ stateSize = 3324

(***************************************************************************)
(* Imports: games of three files that import each other (SpecImport).     *)
(***************************************************************************)
FileA == << "a" >>
FileB == << "b" >>
ImportFiles == {MainFile, FileA, FileB}

\* what the files of an import game are made of: imports of each other (self-imports
\* and cycles included) and the texts String.prototype.replace treats specially
ImportTokens ==
    { Import(f) : f \in ImportFiles } \cup { Pattern(p) : p \in {"match", "before", "after"} }

\* the game whose files main.wgsl, a.wgsl and b.wgsl hold m, a and b
ImportGame(m, a, b) ==
    [f \in ImportFiles |-> IF f = MainFile THEN m ELSE IF f = FileA THEN a ELSE b]

\* main.wgsl and a.wgsl hold up to MaxImports of the tokens, b.wgsl at most one
InitImport ==
    /\ \E m \in SeqsUpTo(ImportTokens, MaxImports), a \in SeqsUpTo(ImportTokens, MaxImports),
          b \in SeqsUpTo(ImportTokens, 1) : game = ImportGame(m, a, b)
    /\ Constructed /\ Untouched /\ AllReadable
NextImport == InitGame
SpecImport == InitImport /\ [][NextImport]_vars

\* the @import("f") directives written in the files of the game
RawImports(body) == { i \in 1..Len(body) : body[i].k = "import" }

NoPatterns(g) == \A f \in DOMAIN g : \A i \in 1..Len(g[f]) : g[f][i].k # "pattern"

\* C4: during one top-level preprocessShader call every file is read at most once and
\* inlined at most once, whatever the imports (self-imports and cycles included), and
\* no raw @import directive remains in the output.
C4_ImportAtMostOnce ==
    Loaded =>
        /\ \A f \in DOMAIN game :
              /\ CountIn(result.reads, f) <= 1
              /\ CountIn(result.code, ImportedFrom(f)) <= 1
        /\ RawImports(result.code) = {}

\* The same, and the account of every occurrence, for files without "$&", "$`", "$'":
\* each file is inlined exactly where it was read, and an occurrence that is not the
\* one inlined is an 'Already imported' comment.
ImportOnceWithoutPatterns ==
    (Loaded /\ NoPatterns(game)) =>
        /\ C4_ImportAtMostOnce
        /\ \A f \in DOMAIN game :
              /\ CountIn(result.code, ImportedFrom(f)) = CountIn(result.reads, f)
              /\ CountIn(result.code, ImportedFrom(f)) + CountIn(result.code, AlreadyImported(f))
                 = SumSeq([i \in 1..(1 + Len(result.reads)) |->
                             CountIn(IF i = 1 THEN game[MainFile] ELSE game[result.reads[i - 1]],
                                     Import(f))])

\* a cycle main -> a -> b -> a was loaded: a and b read once each
ImportCycleLoaded ==
    /\ Loaded
    /\ game[MainFile] = << Import(FileA), Import(FileA) >>
    /\ game[FileA] = << Import(FileB) >>
    /\ game[FileB] = << Import(FileA) >>
    /\ result.code = << ImportedFrom(FileA), ImportedFrom(FileB), AlreadyImported(FileA),
                        AlreadyImported(FileA) >>

(***************************************************************************)
(* Asset discovery: games of main.wgsl and one library file (SpecAssets). *)
(***************************************************************************)
AssetFamilies == {"sound", "texture", "video", "osc", "model"}

\* the directive kinds that refer to the assets of a family
DirectiveKinds(fam) == IF fam = "texture" THEN {"texture", "texture_index"} ELSE {fam}

AssetNames == {Name("n", 1), Name("n", 2)}

FamilyTokens(fam) == { Dir(k, n) : k \in DirectiveKinds(fam), n \in AssetNames }

\* main.wgsl uses the assets of one family and may import the library; the library
\* has at most one directive, of the same family
AssetGames ==
    UNION { { [f \in {MainFile, FileA} |-> IF f = MainFile THEN m ELSE l] :
                  m \in SeqsUpTo(FamilyTokens(fam) \cup {Import(FileA)}, MaxBody),
                  l \in {<< >>} \cup { << t >> : t \in FamilyTokens(fam) } } :
            fam \in AssetFamilies }

\* setShader with the path of the game that is loaded: the same input, preprocessed again
LoadAgain == SetShader(game)

InitAssets == game \in AssetGames /\ Constructed /\ Untouched /\ AllReadable
NextAssets == InitGame \/ LoadAgain
SpecAssets == InitAssets /\ [][NextAssets]_vars

\* the positions in a text of the directives that refer to name as an asset of a family
Occurrences(text, kinds, name) ==
    { i \in 1..Len(text) : text[i].k = "dir" /\ text[i].fam \in kinds /\ text[i].name = name }

Min(S) == CHOOSE x \in S : \A y \in S : x <= y

\* the files one top-level call has worked on
FilesRead == {MainFile} \cup Range(result.reads)

\* the generated identifiers and indices of a family in the output
IdentsOf(code, fam) ==
    { code[i].idx : i \in { j \in 1..Len(code) :
                              code[j].k = "id" /\ code[j].fam \in DirectiveKinds(fam) } }

\* the asset names the files of the compilation refer to
NamesUsed(fam) ==
    { n \in AssetNames : \E f \in FilesRead : Occurrences(game[f], DirectiveKinds(fam), n) # {} }

\* C5: the name of every directive in a file reached through @import is in the manifest
\* of the top-level file, and different asset names get different generated identifiers.
C5_ImportedDirectivesInManifest ==
    Loaded =>
        \A fam \in AssetFamilies :
            /\ NamesUsed(fam) \subseteq Range(FamilyList(result.metadata, fam))
            /\ Cardinality(IdentsOf(result.code, fam)) = Cardinality(NamesUsed(fam))

NoDuplicates(list) == \A i, j \in 1..Len(list) : list[i] = list[j] => i = j

\* the directives the discovery of the top-level call sees are those of main.wgsl itself
OwnText == game[MainFile]

FirstOccurrence(kinds, name) == Min(Occurrences(OwnText, kinds, name))

TextureRank(name) ==
    IF Occurrences(OwnText, {"texture"}, name) # {}
    THEN FirstOccurrence({"texture"}, name)
    ELSE Len(OwnText) + FirstOccurrence({"texture_index"}, name)

OccurrenceRank(fam, name) ==
    IF fam = "texture" THEN TextureRank(name) ELSE FirstOccurrence({fam}, name)

ManifestOrdered ==
    \A fam \in AssetFamilies :
        LET list == FamilyList(result.metadata, fam)
        IN /\ NoDuplicates(list)
           /\ Range(list) = { n \in AssetNames :
                                 Occurrences(OwnText, DirectiveKinds(fam), n) # {} }
           /\ \A a, b \in Range(list) :
                 IndexOf(list, a) < IndexOf(list, b)
                 <=> OccurrenceRank(fam, a) < OccurrenceRank(fam, b)

BindGame(T, V, C, M) ==
    MainOnly([i \in 1..T |-> Dir("texture", Name("t", i))]
             \o [i \in 1..V |-> Dir("video", Name("v", i))]
             \o [i \in 1..C |-> Camera(C - i)]
             \o [i \in 1..M |-> Dir("model", Name("m", i))])

BindGames == { BindGame(T, V, C, M) : T \in 0..MaxRes, V \in 0..MaxRes,
                                       C \in 0..MaxRes, M \in 0..MaxRes }

InitBind == game \in BindGames /\ Constructed /\ Untouched /\ AllReadable
NextBind == InitGame \/ \E g \in BindGames : SetShader(g)
SpecBind == InitBind /\ [][NextBind]_vars

\* the binding numbers of a group, in order
GroupBindings(entries, group) ==
    LET idx == { i \in 1..Len(entries) : entries[i].group = group }
    IN [i \in idx |-> entries[i].binding]

Distinct(entries) ==
    \A i, j \in 1..Len(entries) :
        (entries[i].group = entries[j].group /\ entries[i].binding = entries[j].binding) => i = j

\* the binding plan the documentation gives for T textures, V videos, C cameras
PlannedGroup0(T, V, C) ==
    << Binding(0, 0, "sampler", 0) >>
    \o [i \in 1..T |-> Binding(0, 1 + (i - 1), "texture", i - 1)]
    \o [j \in 1..V |-> Binding(0, 1 + T + (j - 1), "video", j - 1)]
    \o [k \in 1..C |-> Binding(0, 1 + T + V + (k - 1), "camera", k - 1)]

\* and for M models
PlannedGroup2(M) ==
    [n \in 1..(2 * M) |->
        IF n % 2 = 1 THEN Binding(2, 1 + 2 * ((n - 1) \div 2), "positions", (n - 1) \div 2)
        ELSE Binding(2, 2 + 2 * ((n - 1) \div 2), "normals", (n - 1) \div 2)]

EntriesOfGroup(entries, group) ==
    LET RECURSIVE Keep(_)
        Keep(s) == IF s = << >> THEN << >>
                   ELSE (IF Head(s).group = group THEN << Head(s) >> ELSE << >>) \o Keep(Tail(s))
    IN Keep(entries)

\* header, layouts and bind group 0 follow the plan
BindingNumbersAgree ==
    LET T == Len(result.metadata.textures)
        V == Len(result.metadata.videos)
        C == Len(result.metadata.cameras)
        M == Len(result.metadata.models)
    IN /\ EntriesOfGroup(result.header.bindings, 0) = PlannedGroup0(T, V, C)
       /\ renderBindGroupLayout0 = Created(PlannedGroup0(T, V, C))
       /\ renderBindGroup0 = Created(PlannedGroup0(T, V, C))
       /\ EntriesOfGroup(result.header.bindings, 2) = PlannedGroup2(M)
       /\ renderBindGroupLayout2.entries = PlannedGroup2(M)
       /\ Distinct(result.header.bindings)
       /\ Distinct(renderBindGroupLayout0.entries) /\ Distinct(renderBindGroup0.entries)
       /\ Distinct(renderBindGroupLayout2.entries) /\ Distinct(renderBindGroup2.entries)
       /\ \A i \in 1..Len(result.header.bindings) :
             result.header.bindings[i].kind = "texture" => result.header.bindings[i].binding # 0
       /\ (EntriesOfGroup(result.header.bindings, 2) # << >>) <=> M > 0
       /\ renderBindGroupLayout2.exists <=> M > 0

\* group 2 as the render pass binds it
BindGroup2AsPlanned ==
    LET M == Len(result.metadata.models)
    IN /\ renderBindGroup2.exists <=> M > 0
       /\ renderBindGroup2.entries = PlannedGroup2(M)

\* C7: header, bind group layouts and bind groups use the same binding numbers (sampler
\* at 0, texture i at 1+i, video j at 1+T+j, camera k at 1+T+V+k, model i at 1+2i and
\* 2+2i of group 2), without collisions, and group 2 exists exactly if M > 0.
C7_BindingPlan == Loaded => (BindingNumbersAgree /\ BindGroup2AsPlanned)

\* everything but the bind group of group 2 follows the plan after every load, and the
\* bind group of group 2 does after the first
BindingPlanButStaleGroup2 ==
    Loaded => (BindingNumbersAgree /\ (loads = 1 => BindGroup2AsPlanned))

(***************************************************************************)
(* OSC: setOsc calls on a loaded game (SpecOsc).                           *)
(***************************************************************************)
\* the @osc parameters of the games: none, one name, a numeral and a name
OscGames ==
    { MainOnly([i \in 1..Len(ps) |-> Dir("osc", ps[i])]) :
          ps \in { << >>, << << "a" >> >>, << << "4" >>, << "a" >> >> } }

OscNames == SeqsUpTo({"0", "4", "a", "x", "-"}, MaxName)

OscPaths == { prefix \o name : prefix \in {UPrefix, << "/", "v", "/" >>}, name \in OscNames }

OscInputs == {1, 2}

InitOsc == game \in OscGames /\ Constructed /\ Untouched /\ AllReadable
NextOsc == InitGame \/ \E path \in OscPaths, value \in OscInputs : SetOsc(path, value)
SpecOsc == InitOsc /\ [][NextOsc]_vars

\* a decimal integer: one or more decimal digits and nothing else
IsDecimalInteger(name) ==
    name # << >> /\ \A i \in 1..Len(name) : name[i] \in DecimalDigits

\* the slots after setOsc(path, v) as documented
DocumentedOsc(values, params, path, v) ==
    IF ~StartsWith(path, UPrefix) THEN values
    ELSE LET name == Slice(path, 3)
         IN IF name \in Range(params)
            THEN [values EXCEPT ![IndexOf(params, name)] = v]
            ELSE IF IsDecimalInteger(name) /\ DigitsValue(name, 10) < 64
                 THEN [values EXCEPT ![DigitsValue(name, 10)] = v]
                 ELSE values

\* C10: setOsc(path, v) sets the slot of the parameter called name for /u/<name>, else
\* slot n when name is a decimal integer n in 0..63, and changes no slot in every other
\* case.
C10_SetOscAsDocumented ==
    [][ lastCall'.n = lastCall.n + 1
        => oscValues' = DocumentedOsc(oscValues, oscParams, lastCall'.path, lastCall'.value) ]_vars

\* what does hold: a call changes at most one slot, and none without the /u/ prefix
SetOscChangesAtMostOneSlot ==
    [][ lastCall'.n = lastCall.n + 1
        => /\ Cardinality({ i \in 0..63 : oscValues'[i] # oscValues[i] }) <= 1
           /\ ~StartsWith(lastCall'.path, UPrefix) => oscValues' = oscValues ]_vars

(***************************************************************************)
(* Many OSC parameters: games with up to and beyond 64 distinct @osc names *)
(* (SpecOscMany).                                                          *)
(***************************************************************************)
\* the i-th of the generated OSC parameter names, 0 <= i <= 99
OscParamName(i) == << "p", DigitChar[(i \div 10) + 1], DigitChar[(i % 10) + 1] >>

\* a source that references n distinct OSC parameters, the last one twice
ManyOscGame(n) ==
    MainOnly([i \in 1..n |-> Dir("osc", OscParamName(i - 1))]
             \o (IF n > 0 THEN << Dir("osc", OscParamName(n - 1)) >> ELSE << >>))

InitOscMany == (\E n \in 0..(64 + MaxExtraOsc) : game = ManyOscGame(n)) /\ Constructed /\ Untouched /\ AllReadable
NextOscMany == InitGame \/ Update
SpecOscMany == InitOscMany /\ [][NextOscMany]_vars

\* the indices of the _engine.osc[k] the preprocessor wrote
OscIndices(code) ==
    { code[i].idx : i \in { j \in 1..Len(code) : code[j].k = "id" /\ code[j].fam = "osc" } }

\* C11: every @osc directive is rewritten to _engine.osc[k] with 0 <= k < 64, also
\* for a source with more than 64 distinct parameter names.
C11_OscIndexInRange ==
    Loaded => \A k \in OscIndices(result.code) : 0 <= k /\ k < 64

\* up to 64 distinct names the indices are in range
OscIndexInRangeUpTo64 ==
    (Loaded /\ Len(oscParams) <= 64) => \A k \in OscIndices(result.code) : 0 <= k /\ k < 64

(***************************************************************************)
(* The host block of the Bob demo (checked under SpecLayout).              *)
(***************************************************************************)
BobLoaded ==
    /\ Loaded /\ game = BobGame
    /\ result.header.gameState = BobFields
    /\ Len(textureFiles) = 1 /\ audioCount = 1

\* C20 as stated: the host block buffer of the Bob demo is 112 bytes.
C20_BobHostBlockIs112 == BobLoaded => totalSize = 112

\* C20 (amended): the host block buffer of the Bob demo is 1152 bytes: 80 for buttons,
\* time and mouse, 24 of state, 4 of audio, 256 of osc and 776 of keys are 1140,
\* rounded up to a multiple of 16.
C20_BobHostBlockIs1152 ==
    BobLoaded => /\ stateSize = 24
                 /\ totalSize = CeilTo(80 + 24 + 4 + 256 + 776, 16)
                 /\ totalSize = 1152

\* the Bob demo has been loaded and has not run a frame yet
C20_Witness == BobLoaded /\ ~frameWrites.done /\ totalSize = 1152

(***************************************************************************)
(* reload(): games loaded with init and setShader, then reloaded           *)
(* (SpecReload).                                                           *)
(***************************************************************************)
\* what loadGame assigns
loadedVars == << result, loads, stateSize, audioCount, textureFiles, videoFiles, cameraIndices,
                 modelFiles, oscParams, oscValues, textures, videoTextures, cameraTextures,
                 models, soundBuffers, totalSize, bufferOffsets, renderBindGroupLayout0,
                 renderBindGroupLayout2, renderBindGroup0, renderBindGroup2, modelVars,
                 bufferVars >>

\* reload(): if (this.currentPath) await this.loadGame(this.currentPath)
Reload ==
    /\ loads >= 1 /\ reloadCalls < MaxReloads
    /\ reloadCalls' = reloadCalls + 1
    /\ IF currentPath.defined THEN LoadGame(game) ELSE UNCHANGED loadedVars
    /\ UNCHANGED << frameVars, game, frameWrites, lastCall, running, loadError, inputVars,
                    currentPath, loading, frameInLoad, envVars >>

\* the games that are loaded and reloaded
ReloadGames == { BindGame(T, V, 0, M) : T \in 0..MaxRes, V \in 0..1, M \in 0..MaxRes }

InitReload == game \in ReloadGames /\ Constructed /\ Untouched /\ AllReadable
NextReload == InitGame \/ (\E g \in ReloadGames : SetShader(g)) \/ Reload
SpecReload == InitReload /\ [][NextReload]_vars

\* C19: after a game has been loaded with init(path) or setShader(path), reload() runs
\* loadGame again for that same path.
C19_ReloadLoadsAgain ==
    [][ reloadCalls' = reloadCalls + 1 => (loads' = loads + 1 /\ game' = game) ]_vars

\* what reload() does: nothing, since no method assigns this.currentPath
ReloadDoesNothing ==
    [][ reloadCalls' = reloadCalls + 1 => UNCHANGED << loadedVars, game, currentPath >> ]_vars

(***************************************************************************)
(* Keyboard: the key-event table of the host, the KEY_ constants of the    *)
(* generated header and the keydown / keyup listeners of setupInput.       *)
(***************************************************************************)
\* KEY_CODE_INDEX: e.code -> index into the keys array
KEY_CODE_INDEX ==
    [ Backquote |-> 0, Backslash |-> 1, BracketLeft |-> 2, BracketRight |-> 3, Comma |-> 4,
      Digit0 |-> 5, Digit1 |-> 6, Digit2 |-> 7, Digit3 |-> 8, Digit4 |-> 9, Digit5 |-> 10,
      Digit6 |-> 11, Digit7 |-> 12, Digit8 |-> 13, Digit9 |-> 14, Equal |-> 15,
      IntlBackslash |-> 16, IntlRo |-> 17, IntlYen |-> 18, KeyA |-> 19, KeyB |-> 20, KeyC
      |-> 21, KeyD |-> 22, KeyE |-> 23, KeyF |-> 24, KeyG |-> 25, KeyH |-> 26, KeyI |-> 27,
      KeyJ |-> 28, KeyK |-> 29, KeyL |-> 30, KeyM |-> 31, KeyN |-> 32, KeyO |-> 33, KeyP |->
      34, KeyQ |-> 35, KeyR |-> 36, KeyS |-> 37, KeyT |-> 38, KeyU |-> 39, KeyV |-> 40, KeyW
      |-> 41, KeyX |-> 42, KeyY |-> 43, KeyZ |-> 44, Minus |-> 45, Period |-> 46, Quote |->
      47, Semicolon |-> 48, Slash |-> 49, AltLeft |-> 50, AltRight |-> 51, Backspace |-> 52,
      CapsLock |-> 53, ContextMenu |-> 54, ControlLeft |-> 55, ControlRight |-> 56, Enter
      |-> 57, SuperLeft |-> 58, SuperRight |-> 59, ShiftLeft |-> 60, ShiftRight |-> 61,
      Space |-> 62, Tab |-> 63, Convert |-> 64, KanaMode |-> 65, Lang1 |-> 66, Lang2 |-> 67,
      Lang3 |-> 68, Lang4 |-> 69, Lang5 |-> 70, NonConvert |-> 71, Delete |-> 72, End |->
      73, Help |-> 74, Home |-> 75, Insert |-> 76, PageDown |-> 77, PageUp |-> 78, ArrowDown
      |-> 79, ArrowLeft |-> 80, ArrowRight |-> 81, ArrowUp |-> 82, NumLock |-> 83, Numpad0
      |-> 84, Numpad1 |-> 85, Numpad2 |-> 86, Numpad3 |-> 87, Numpad4 |-> 88, Numpad5 |->
      89, Numpad6 |-> 90, Numpad7 |-> 91, Numpad8 |-> 92, Numpad9 |-> 93, NumpadAdd |-> 94,
      NumpadBackspace |-> 95, NumpadClear |-> 96, NumpadClearEntry |-> 97, NumpadComma |->
      98, NumpadDecimal |-> 99, NumpadDivide |-> 100, NumpadEnter |-> 101, NumpadEqual |->
      102, NumpadHash |-> 103, NumpadMemoryAdd |-> 104, NumpadMemoryClear |-> 105,
      NumpadMemoryRecall |-> 106, NumpadMemoryStore |-> 107, NumpadMemorySubtract |-> 108,
      NumpadMultiply |-> 109, NumpadParenLeft |-> 110, NumpadParenRight |-> 111, NumpadStar
      |-> 112, NumpadSubtract |-> 113, Escape |-> 114, Fn |-> 115, FnLock |-> 116,
      PrintScreen |-> 117, ScrollLock |-> 118, Pause |-> 119, BrowserBack |-> 120,
      BrowserFavorites |-> 121, BrowserForward |-> 122, BrowserHome |-> 123, BrowserRefresh
      |-> 124, BrowserSearch |-> 125, BrowserStop |-> 126, Eject |-> 127, LaunchApp1 |->
      128, LaunchApp2 |-> 129, LaunchMail |-> 130, MediaPlayPause |-> 131, MediaSelect |->
      132, MediaStop |-> 133, MediaTrackNext |-> 134, MediaTrackPrevious |-> 135, Power |->
      136, Sleep |-> 137, AudioVolumeDown |-> 138, AudioVolumeMute |-> 139, AudioVolumeUp
      |-> 140, WakeUp |-> 141, Meta |-> 142, Hyper |-> 143, Turbo |-> 144, Abort |-> 145,
      Resume |-> 146, Suspend |-> 147, Again |-> 148, Copy |-> 149, Cut |-> 150, Find |->
      151, Open |-> 152, Paste |-> 153, Props |-> 154, Select |-> 155, Undo |-> 156,
      Hiragana |-> 157, Katakana |-> 158, F1 |-> 159, F2 |-> 160, F3 |-> 161, F4 |-> 162, F5
      |-> 163, F6 |-> 164, F7 |-> 165, F8 |-> 166, F9 |-> 167, F10 |-> 168, F11 |-> 169, F12
      |-> 170, F13 |-> 171, F14 |-> 172, F15 |-> 173, F16 |-> 174, F17 |-> 175, F18 |-> 176,
      F19 |-> 177, F20 |-> 178, F21 |-> 179, F22 |-> 180, F23 |-> 181, F24 |-> 182, F25 |->
      183, F26 |-> 184, F27 |-> 185, F28 |-> 186, F29 |-> 187, F30 |-> 188, F31 |-> 189, F32
      |-> 190, F33 |-> 191, F34 |-> 192, F35 |-> 193 ]

\* the `const KEY_X: u32 = Nu;` lines of the generated header
KeyConstants ==
    [ KEY_BACKQUOTE |-> 0, KEY_BACKSLASH |-> 1, KEY_BRACKET_LEFT |-> 2, KEY_BRACKET_RIGHT
      |-> 3, KEY_COMMA |-> 4, KEY_0 |-> 5, KEY_1 |-> 6, KEY_2 |-> 7, KEY_3 |-> 8, KEY_4 |->
      9, KEY_5 |-> 10, KEY_6 |-> 11, KEY_7 |-> 12, KEY_8 |-> 13, KEY_9 |-> 14, KEY_EQUAL |->
      15, KEY_INTL_BACKSLASH |-> 16, KEY_INTL_RO |-> 17, KEY_INTL_YEN |-> 18, KEY_A |-> 19,
      KEY_B |-> 20, KEY_C |-> 21, KEY_D |-> 22, KEY_E |-> 23, KEY_F |-> 24, KEY_G |-> 25,
      KEY_H |-> 26, KEY_I |-> 27, KEY_J |-> 28, KEY_K |-> 29, KEY_L |-> 30, KEY_M |-> 31,
      KEY_N |-> 32, KEY_O |-> 33, KEY_P |-> 34, KEY_Q |-> 35, KEY_R |-> 36, KEY_S |-> 37,
      KEY_T |-> 38, KEY_U |-> 39, KEY_V |-> 40, KEY_W |-> 41, KEY_X |-> 42, KEY_Y |-> 43,
      KEY_Z |-> 44, KEY_MINUS |-> 45, KEY_PERIOD |-> 46, KEY_QUOTE |-> 47, KEY_SEMICOLON |->
      48, KEY_SLASH |-> 49, KEY_ALT_LEFT |-> 50, KEY_ALT_RIGHT |-> 51, KEY_BACKSPACE |-> 52,
      KEY_CAPS_LOCK |-> 53, KEY_CONTEXT_MENU |-> 54, KEY_CTRL_LEFT |-> 55, KEY_CTRL_RIGHT
      |-> 56, KEY_ENTER |-> 57, KEY_SUPER_LEFT |-> 58, KEY_SUPER_RIGHT |-> 59,
      KEY_SHIFT_LEFT |-> 60, KEY_SHIFT_RIGHT |-> 61, KEY_SPACE |-> 62, KEY_TAB |-> 63,
      KEY_DELETE |-> 72, KEY_END |-> 73, KEY_HOME |-> 75, KEY_INSERT |-> 76, KEY_PAGE_DOWN
      |-> 77, KEY_PAGE_UP |-> 78, KEY_DOWN |-> 79, KEY_LEFT |-> 80, KEY_RIGHT |-> 81, KEY_UP
      |-> 82, KEY_ESCAPE |-> 114, KEY_F1 |-> 159, KEY_F2 |-> 160, KEY_F3 |-> 161, KEY_F4 |->
      162, KEY_F5 |-> 163, KEY_F6 |-> 164, KEY_F7 |-> 165, KEY_F8 |-> 166, KEY_F9 |-> 167,
      KEY_F10 |-> 168, KEY_F11 |-> 169, KEY_F12 |-> 170 ]

\* the physical key (KeyboardEvent.code) each KEY_ constant is named after
KeyCodeOf ==
    [ KEY_BACKQUOTE |-> "Backquote", KEY_BACKSLASH |-> "Backslash", KEY_BRACKET_LEFT |->
      "BracketLeft", KEY_BRACKET_RIGHT |-> "BracketRight", KEY_COMMA |-> "Comma", KEY_0 |->
      "Digit0", KEY_1 |-> "Digit1", KEY_2 |-> "Digit2", KEY_3 |-> "Digit3", KEY_4 |->
      "Digit4", KEY_5 |-> "Digit5", KEY_6 |-> "Digit6", KEY_7 |-> "Digit7", KEY_8 |->
      "Digit8", KEY_9 |-> "Digit9", KEY_EQUAL |-> "Equal", KEY_INTL_BACKSLASH |->
      "IntlBackslash", KEY_INTL_RO |-> "IntlRo", KEY_INTL_YEN |-> "IntlYen", KEY_A |->
      "KeyA", KEY_B |-> "KeyB", KEY_C |-> "KeyC", KEY_D |-> "KeyD", KEY_E |-> "KeyE", KEY_F
      |-> "KeyF", KEY_G |-> "KeyG", KEY_H |-> "KeyH", KEY_I |-> "KeyI", KEY_J |-> "KeyJ",
      KEY_K |-> "KeyK", KEY_L |-> "KeyL", KEY_M |-> "KeyM", KEY_N |-> "KeyN", KEY_O |->
      "KeyO", KEY_P |-> "KeyP", KEY_Q |-> "KeyQ", KEY_R |-> "KeyR", KEY_S |-> "KeyS", KEY_T
      |-> "KeyT", KEY_U |-> "KeyU", KEY_V |-> "KeyV", KEY_W |-> "KeyW", KEY_X |-> "KeyX",
      KEY_Y |-> "KeyY", KEY_Z |-> "KeyZ", KEY_MINUS |-> "Minus", KEY_PERIOD |-> "Period",
      KEY_QUOTE |-> "Quote", KEY_SEMICOLON |-> "Semicolon", KEY_SLASH |-> "Slash",
      KEY_ALT_LEFT |-> "AltLeft", KEY_ALT_RIGHT |-> "AltRight", KEY_BACKSPACE |->
      "Backspace", KEY_CAPS_LOCK |-> "CapsLock", KEY_CONTEXT_MENU |-> "ContextMenu",
      KEY_CTRL_LEFT |-> "ControlLeft", KEY_CTRL_RIGHT |-> "ControlRight", KEY_ENTER |->
      "Enter", KEY_SUPER_LEFT |-> "SuperLeft", KEY_SUPER_RIGHT |-> "SuperRight",
      KEY_SHIFT_LEFT |-> "ShiftLeft", KEY_SHIFT_RIGHT |-> "ShiftRight", KEY_SPACE |->
      "Space", KEY_TAB |-> "Tab", KEY_DELETE |-> "Delete", KEY_END |-> "End", KEY_HOME |->
      "Home", KEY_INSERT |-> "Insert", KEY_PAGE_DOWN |-> "PageDown", KEY_PAGE_UP |->
      "PageUp", KEY_DOWN |-> "ArrowDown", KEY_LEFT |-> "ArrowLeft", KEY_RIGHT |->
      "ArrowRight", KEY_UP |-> "ArrowUp", KEY_ESCAPE |-> "Escape", KEY_F1 |-> "F1", KEY_F2
      |-> "F2", KEY_F3 |-> "F3", KEY_F4 |-> "F4", KEY_F5 |-> "F5", KEY_F6 |-> "F6", KEY_F7
      |-> "F7", KEY_F8 |-> "F8", KEY_F9 |-> "F9", KEY_F10 |-> "F10", KEY_F11 |-> "F11",
      KEY_F12 |-> "F12" ]

\* KEY_MAP: e.code -> BTN_ index of the virtual controller
KEY_MAP ==
    [ ArrowUp |-> 0, ArrowDown |-> 1, ArrowLeft |-> 2, ArrowRight |-> 3, KeyX |-> 4, KeyZ |-> 5,
      KeyS |-> 6, KeyA |-> 7, KeyQ |-> 8, KeyW |-> 9, Enter |-> 10, ShiftRight |-> 11,
      ShiftLeft |-> 11 ]

\* a key-table lookup that is one slot too high for every key after the digits
KeyIndexShifted(code) ==
    IF code \in DOMAIN KEY_CODE_INDEX
    THEN [defined |-> TRUE,
          value |-> IF KEY_CODE_INDEX[code] >= 19 /\ KEY_CODE_INDEX[code] < 193
                    THEN KEY_CODE_INDEX[code] + 1 ELSE KEY_CODE_INDEX[code]]
    ELSE Undefined

\* KEY_CODE_INDEX[e.code]
KeyIndex(code) ==
    IF code \in DOMAIN KEY_CODE_INDEX
    THEN [defined |-> TRUE, value |-> KEY_CODE_INDEX[code]]
    ELSE Undefined

\* KEY_MAP[e.code]
ButtonOf(code) ==
    IF code \in DOMAIN KEY_MAP THEN [defined |-> TRUE, value |-> KEY_MAP[code]] ELSE Undefined

MaxKeysDown == 1

\* the codes of the key events: every key a KEY_ constant names, a key of the
\* table without a constant, and two codes the table does not have
KeyEventCodes ==
    { KeyCodeOf[c] : c \in DOMAIN KeyConstants } \cup {"F13", "MetaLeft", "Unidentified"}

\* window "keydown" listener
KeyDown(code) ==
    /\ running
    /\ pressed' = pressed \cup {code}
    /\ buttons' = IF ButtonOf(code).defined
                  THEN [buttons EXCEPT ![ButtonOf(code).value] = 1] ELSE buttons
    /\ keys' = IF KeyIndex(code).defined
               THEN [keys EXCEPT ![KeyIndex(code).value] = 1] ELSE keys
    /\ UNCHANGED << modelVars, bufferVars, frameVars, game, loads, result, stateSize,
                    audioCount, textureFiles, videoFiles,
                    cameraIndices, modelFiles, oscParams, oscValues, textures, videoTextures,
                    cameraTextures, models, totalSize, bufferOffsets, renderBindGroupLayout0,
                    renderBindGroupLayout2, renderBindGroup0, renderBindGroup2, frameWrites,
                    lastCall, soundBuffers, running, loadError, mouseX, mouseY, mouseClickX,
                    mouseClickY, loadVars, unreadable, videoDevices, pointer >>

\* window "keyup" listener
KeyUp(code) ==
    /\ running
    /\ code \in pressed
    /\ pressed' = pressed \ {code}
    /\ buttons' = IF ButtonOf(code).defined
                  THEN [buttons EXCEPT ![ButtonOf(code).value] = 0] ELSE buttons
    /\ keys' = IF KeyIndex(code).defined
               THEN [keys EXCEPT ![KeyIndex(code).value] = 0] ELSE keys
    /\ UNCHANGED << modelVars, bufferVars, frameVars, game, loads, result, stateSize,
                    audioCount, textureFiles, videoFiles,
                    cameraIndices, modelFiles, oscParams, oscValues, textures, videoTextures,
                    cameraTextures, models, totalSize, bufferOffsets, renderBindGroupLayout0,
                    renderBindGroupLayout2, renderBindGroup0, renderBindGroup2, frameWrites,
                    lastCall, soundBuffers, running, loadError, mouseX, mouseY, mouseClickX,
                    mouseClickY, loadVars, unreadable, videoDevices, pointer >>

InitKeys == game = BobGame /\ Constructed /\ Untouched /\ AllReadable

NextKeys ==
    \/ InitGame
    \/ \E code \in KeyEventCodes : Cardinality(pressed \cup {code}) <= MaxKeysDown /\ KeyDown(code)
    \/ \E code \in KeyEventCodes : KeyUp(code)
    \/ Update

SpecKeys == InitKeys /\ [][NextKeys]_vars

\* the constants KEY_<first>..KEY_<last> name, in this order, the given codes
\* and have the consecutive indices from..from + Len(codes) - 1
ConsecutiveFrom(codes, from) ==
    \A i \in 1..Len(codes) : KEY_CODE_INDEX[codes[i]] = from + i - 1

Letters ==
    << "KeyA", "KeyB", "KeyC", "KeyD", "KeyE", "KeyF", "KeyG", "KeyH", "KeyI", "KeyJ", "KeyK",
       "KeyL", "KeyM", "KeyN", "KeyO", "KeyP", "KeyQ", "KeyR", "KeyS", "KeyT", "KeyU", "KeyV",
       "KeyW", "KeyX", "KeyY", "KeyZ" >>

Arrows == << "ArrowDown", "ArrowLeft", "ArrowRight", "ArrowUp" >>

FunctionKeys ==
    << "F1", "F2", "F3", "F4", "F5", "F6", "F7", "F8", "F9", "F10", "F11", "F12" >>

\* the header constants and the host table agree, key by key
KeyTablesAgree ==
    /\ DOMAIN KeyCodeOf = DOMAIN KeyConstants
    /\ \A c \in DOMAIN KeyConstants :
          /\ KeyIndex(KeyCodeOf[c]).defined
          /\ KeyIndex(KeyCodeOf[c]).value = KeyConstants[c]
    /\ KeyConstants.KEY_A = 19 /\ KEY_CODE_INDEX.KeyA = 19
    /\ ConsecutiveFrom(Letters, 19)
    /\ ConsecutiveFrom(Arrows, 79)
    /\ ConsecutiveFrom(FunctionKeys, 159)
    /\ \A a, b \in DOMAIN KEY_CODE_INDEX : KEY_CODE_INDEX[a] = KEY_CODE_INDEX[b] => a = b
    /\ \A a \in DOMAIN KEY_CODE_INDEX : KEY_CODE_INDEX[a] >= 0 /\ KEY_CODE_INDEX[a] < 194

MaxCoord == 2

Coords == 0..MaxCoord

\* e.button: 0 is the left button, 2 the right one
MouseButtons == {0, 2}

\* Math.abs
Abs(x) == IF x < 0 THEN -x ELSE x

\* canvas "mousemove" listener
MouseMove(x, y) ==
    /\ running
    /\ mouseX' = x
    /\ mouseY' = y
    /\ UNCHANGED << modelVars, bufferVars, frameVars, game, loads, result, stateSize,
                    audioCount, textureFiles, videoFiles,
                    cameraIndices, modelFiles, oscParams, oscValues, textures, videoTextures,
                    cameraTextures, models, totalSize, bufferOffsets, renderBindGroupLayout0,
                    renderBindGroupLayout2, renderBindGroup0, renderBindGroup2, frameWrites,
                    lastCall, soundBuffers, running, loadError, keys, buttons, mouseClickX,
                    mouseClickY, loadVars, envVars >>

\* canvas "mousedown" listener
MouseDown(button, x, y) ==
    /\ running
    /\ IF button = 0
       THEN /\ mouseX' = x
            /\ mouseY' = y
            /\ mouseClickX' = x
            /\ mouseClickY' = y
            /\ pointer' = [held |-> TRUE, pressedOnce |-> TRUE, x |-> x, y |-> y]
       ELSE UNCHANGED << mouseX, mouseY, mouseClickX, mouseClickY, pointer >>
    /\ UNCHANGED << modelVars, bufferVars, frameVars, game, loads, result, stateSize,
                    audioCount, textureFiles, videoFiles,
                    cameraIndices, modelFiles, oscParams, oscValues, textures, videoTextures,
                    cameraTextures, models, totalSize, bufferOffsets, renderBindGroupLayout0,
                    renderBindGroupLayout2, renderBindGroup0, renderBindGroup2, frameWrites,
                    lastCall, soundBuffers, running, loadError, keys, buttons, loadVars,
                    unreadable, videoDevices, pressed >>

\* canvas "mouseup" listener
MouseUp(button) ==
    /\ running
    /\ IF button = 0
       THEN /\ mouseClickX' = -Abs(mouseClickX)
            /\ mouseClickY' = -Abs(mouseClickY)
            /\ pointer' = [pointer EXCEPT !.held = FALSE]
       ELSE UNCHANGED << mouseClickX, mouseClickY, pointer >>
    /\ UNCHANGED << modelVars, bufferVars, frameVars, game, loads, result, stateSize,
                    audioCount, textureFiles, videoFiles,
                    cameraIndices, modelFiles, oscParams, oscValues, textures, videoTextures,
                    cameraTextures, models, totalSize, bufferOffsets, renderBindGroupLayout0,
                    renderBindGroupLayout2, renderBindGroup0, renderBindGroup2, frameWrites,
                    lastCall, soundBuffers, running, loadError, keys, buttons, mouseX, mouseY,
                    loadVars, unreadable, videoDevices, pressed >>

InitMouse == game = BobGame /\ Constructed /\ Untouched /\ AllReadable

NextMouse ==
    \/ InitGame
    \/ \E x, y \in Coords : MouseMove(x, y)
    \/ \E b \in MouseButtons, x, y \in Coords : MouseDown(b, x, y)
    \/ \E b \in MouseButtons : MouseUp(b)
    \/ Update

SpecMouse == InitMouse /\ [][NextMouse]_vars

\* C13: once the left button has been pressed on the canvas, |mouse.z| and
\* |mouse.w| are the coordinates of the most recent left mousedown, both are
\* positive exactly while the button is held and negative once it is released.
C13_ClickSignEncodesHeld ==
    pointer.pressedOnce =>
        /\ Abs(mouseClickX) = pointer.x
        /\ Abs(mouseClickY) = pointer.y
        /\ pointer.held => (mouseClickX > 0 /\ mouseClickY > 0)
        /\ ~pointer.held => (mouseClickX < 0 /\ mouseClickY < 0)

\* what the listeners do guarantee: the magnitudes are the coordinates of the
\* last left mousedown, and the sign tells held from released only for a
\* coordinate that is not 0
ClickSignEncodesHeldAwayFromZero ==
    pointer.pressedOnce =>
        /\ Abs(mouseClickX) = pointer.x
        /\ Abs(mouseClickY) = pointer.y
        /\ pointer.held => (mouseClickX >= 0 /\ mouseClickY >= 0)
        /\ ~pointer.held => (mouseClickX <= 0 /\ mouseClickY <= 0)
        /\ (pointer.held /\ pointer.x > 0) => mouseClickX > 0
        /\ (~pointer.held /\ pointer.x > 0) => mouseClickX < 0

(***************************************************************************)
(* @str literals: sources with one literal, a short text over the          *)
(* backslash, the quote and two letters, followed by a run of the letter   *)
(* a that takes the literal up to and past MAX_STRING_LENGTH.              *)
(***************************************************************************)
MaxStr == 3

\* backslash, double quote, n, a
StrAlphabet == {92, 34, 110, 97}

\* the text matches ((?:[^"\\]|\\.)*) : no bare quote, no backslash at the end
RECURSIVE WellFormedStr(_)
WellFormedStr(raw) ==
    IF raw = << >> THEN TRUE
    ELSE IF Head(raw) = 92 THEN Len(raw) >= 2 /\ WellFormedStr(SubSeq(raw, 3, Len(raw)))
    ELSE IF Head(raw) = 34 THEN FALSE
    ELSE WellFormedStr(Tail(raw))

StrTexts ==
    { raw \in UNION { [1..n -> StrAlphabet] : n \in 0..MaxStr } : WellFormedStr(raw) }

\* lengths of the run of a's after the text
StrRuns == {0, MAX_STRING_LENGTH - MaxStr, MAX_STRING_LENGTH}

StrGame(raw, run) == MainOnly(<< Str(raw \o [i \in 1..run |-> 97]) >>)

InitStr ==
    /\ \E raw \in StrTexts, run \in StrRuns : game = StrGame(raw, run)
    /\ Constructed /\ Untouched /\ AllReadable

NextStr == InitGame \/ Update

SpecStr == InitStr /\ [][NextStr]_vars

\* the positions of the @str literals of the main file
StrPositions == { i \in 1..Len(game[MainFile]) : game[MainFile][i].k = "str" }

\* the array literal at position i is, element by element, the given codes followed
\* by zeros, MAX_STRING_LENGTH elements in all
IsPaddedArray(lit, codes) ==
    /\ lit.k = "array"
    /\ lit.idx = MAX_STRING_LENGTH
    /\ Len(lit.name) = MAX_STRING_LENGTH
    /\ \A j \in 1..MAX_STRING_LENGTH :
          lit.name[j] = IF j <= Len(codes) THEN codes[j] ELSE 0

\* C14: every @str literal of length L becomes an array literal of exactly 128
\* elements, the first min(L, 128) the character codes and the rest 0; a longer
\* literal is cut off at 128 elements.
C14_StrArrayHas128Elements ==
    Loaded => \A i \in StrPositions :
                 IsPaddedArray(result.code[i], Unescape(game[MainFile][i].name))

\* a literal of up to 128 characters becomes the padded array; a longer one becomes
\* an array literal declared with 128 elements that lists every character
StrArrayPaddedNotTruncated ==
    Loaded => \A i \in StrPositions :
                 LET chars == Unescape(game[MainFile][i].name)
                 IN IF Len(chars) <= MAX_STRING_LENGTH
                    THEN IsPaddedArray(result.code[i], chars)
                    ELSE result.code[i] = ArrayLiteral(MAX_STRING_LENGTH, chars)

\* C15: the escapes of a @str literal are replaced in one pass from left to right
\* (\n, \r, \t, \", \\ give 10, 13, 9, 34, 92), so that an escaped backslash followed
\* by the letter n gives 92, 110.
C15_StrUnescapedLeftToRight ==
    Loaded => \A i \in StrPositions :
                 LET chars == UnescapeInOnePass(game[MainFile][i].name)
                 IN Len(chars) <= MAX_STRING_LENGTH => IsPaddedArray(result.code[i], chars)

\* two backslashes in a row
HasEscapedBackslash(raw) == \E j \in 1..(Len(raw) - 1) : raw[j] = 92 /\ raw[j + 1] = 92

\* without an escaped backslash the chain of replacements is the one-pass result
StrUnescapedLeftToRightWithoutEscapedBackslash ==
    Loaded => \A i \in StrPositions :
                 LET raw == game[MainFile][i].name
                     chars == UnescapeInOnePass(raw)
                 IN (~HasEscapedBackslash(raw) /\ Len(chars) <= MAX_STRING_LENGTH)
                        => IsPaddedArray(result.code[i], chars)

(***************************************************************************)
(* Assets that cannot be read: sources with textures, models and sounds,   *)
(* of which the files in unreadable make readFile reject.                  *)
(***************************************************************************)
MaxUnreadable == 1

\* a source with nT textures, nM models and nS sounds
FailGame(nT, nM, nS) ==
    MainOnly([i \in 1..nT |-> Dir("texture", Name("t", i))]
             \o [i \in 1..nM |-> Dir("model", Name("m", i))]
             \o [i \in 1..nS |-> Dir("sound", Name("s", i))])

FailFiles ==
    { Name("t", i) : i \in 1..MaxRes } \cup { Name("m", 1) }
        \cup { Name("s", i) : i \in 1..MaxSounds }

InitFail ==
    /\ \E nT \in 0..MaxRes, nM \in 0..1, nS \in 0..MaxSounds : game = FailGame(nT, nM, nS)
    /\ Constructed /\ Untouched
    /\ unreadable \in { S \in SUBSET FailFiles : Cardinality(S) <= MaxUnreadable }
    /\ videoDevices = {}

NextFail == InitGame \/ Update

SpecFail == InitFail /\ [][NextFail]_vars

\* init(gamePath) has been called
Attempted == loads >= 1 \/ loadError

\* a file of the manifest of one of the given families cannot be read
UnreadableAsset(families) ==
    \/ "texture" \in families /\ Range(result.metadata.textures) \cap unreadable # {}
    \/ "model" \in families /\ Range(result.metadata.models) \cap unreadable # {}
    \/ "sound" \in families /\ Range(result.metadata.sounds) \cap unreadable # {}

\* init rejected: nothing was loaded and the frame loop is not running
Aborted == loadError /\ loads = 0 /\ ~running /\ ~frameWrites.done

\* C16: if a texture, model or sound file of the manifest cannot be read, the load
\* is aborted: init rejects and the frame loop is never started.
C16_UnreadableAssetAbortsLoad ==
    (Attempted /\ UnreadableAsset({"texture", "model", "sound"})) => Aborted

\* an unreadable texture or model aborts the load; when only sounds are unreadable
\* the load completes with null in place of their data and the frame loop runs
UnreadableSoundDoesNotAbortLoad ==
    /\ (Attempted /\ UnreadableAsset({"texture", "model"})) => Aborted
    /\ (Attempted /\ ~UnreadableAsset({"texture", "model"})) =>
          /\ loads = 1 /\ running /\ ~loadError
          /\ Len(soundBuffers) = audioCount
          /\ \A i \in 1..audioCount :
                soundBuffers[i] <=> result.metadata.sounds[i] \notin unreadable

(***************************************************************************)
(* Cameras: sources that reference cameras, in any order and repeatedly,   *)
(* on a machine where the cameras in videoDevices can be opened.           *)
(***************************************************************************)
MaxCamera == 2      \* highest camera index a source references
MaxCameraRefs == 2  \* @camera references of a source

\* a source with T textures and the given @camera references
CameraGame(T, refs) ==
    MainOnly([i \in 1..T |-> Dir("texture", Name("t", i))]
             \o [i \in 1..Len(refs) |-> Camera(refs[i])])

InitCamera ==
    /\ \E T \in 0..1, refs \in UNION { [1..n -> 0..MaxCamera] : n \in 0..MaxCameraRefs } :
          game = CameraGame(T, refs)
    /\ Constructed /\ Untouched
    /\ unreadable = {}
    /\ videoDevices \in SUBSET (0..MaxCamera)

NextCamera == InitGame \/ Update

SpecCamera == InitCamera /\ [][NextCamera]_vars

\* the camera indices the source references
ReferencedCameras ==
    { game[MainFile][i].idx :
        i \in { j \in 1..Len(game[MainFile]) :
                  game[MainFile][j].k = "dir" /\ game[MainFile][j].fam = "camera" } }

\* the camera bindings the header declares
CameraBindings ==
    { i \in 1..Len(result.header.bindings) : result.header.bindings[i].kind = "camera" }

\* C17: loadCameras creates exactly one camera texture per camera index of the
\* manifest, in manifest order, whether the camera can be opened or not: their number
\* is the number of camera bindings, a camera that cannot be opened gets a 1x1
\* texture, and the load is not aborted.
C17_OneTexturePerCamera ==
    Attempted =>
        /\ loads = 1 /\ running /\ ~loadError
        /\ cameraIndices = SortAsc(ReferencedCameras)
        /\ Len(cameraTextures) = Len(cameraIndices)
        /\ Len(cameraTextures) = Cardinality(CameraBindings)
        /\ \A i \in 1..Len(cameraIndices) :
              /\ cameraIndices[i] \in videoDevices => cameraTextures[i].width > 1
              /\ cameraIndices[i] \notin videoDevices =>
                    cameraTextures[i] = [width |-> 1, height |-> 1]

\* C17 witness: two cameras are referenced, the first cannot be opened and the second
\* can; the load completed and a frame has run
C17_Witness ==
    /\ loads = 1 /\ frameWrites.done
    /\ Len(cameraIndices) = 2
    /\ cameraIndices[1] \notin videoDevices /\ cameraIndices[2] \in videoDevices
    /\ cameraTextures[1] = [width |-> 1, height |-> 1]
    /\ cameraTextures[2].width > 1

(***************************************************************************)
(* A shader load while the frame loop runs.  loadGame is an async function:*)
(* it assigns the manifest fields and runs the loaders, then awaits        *)
(* getCompilationInfo(), and only then creates the buffer, the layouts,    *)
(* the pipelines and the bind groups.  this.running stays true, so the     *)
(* requestAnimationFrame callback can run while loadGame is suspended.     *)
(***************************************************************************)
Compiling == "compile"

\* setShader(path) up to `await this.shaderModule.getCompilationInfo()`
BeginSetShader(g) ==
    LET r        == PreprocessShader(g[MainFile], {}, TRUE, << >>, g)
        metadata == r.metadata
    IN /\ loads >= 1 /\ loads < MaxLoads
       /\ loading = NotLoading
       /\ ~LoadRejects(g)
       /\ game' = g
       /\ result' = r
       /\ audioCount' = Len(metadata.sounds)
       /\ stateSize' = metadata.stateSize
       /\ textureFiles' = metadata.textures
       /\ modelFiles' = metadata.models
       /\ videoFiles' = metadata.videos
       /\ cameraIndices' = metadata.cameras
       /\ oscParams' = metadata.oscParams
       /\ oscValues' = [i \in 0..63 |-> 0]
       /\ textures' = Len(metadata.textures)
       /\ videoTextures' = Len(metadata.videos)
       /\ cameraTextures' = LoadCameras(metadata.cameras, videoDevices)
       /\ soundBuffers' = LoadSounds(metadata.sounds, unreadable)
       /\ models' = Len(metadata.models)
       /\ modelBuffers' = LoadModels(modelFiles', g, unreadable).models
       /\ modelVertexCount' = LoadModels(modelFiles', g, unreadable).modelVertexCount
       /\ loading' = Compiling
       /\ UNCHANGED << bufferVars, frameVars, loads, totalSize, bufferOffsets, renderBindGroupLayout0,
                       renderBindGroupLayout2, renderBindGroup0, renderBindGroup2,
                       frameWrites, lastCall, running, loadError, inputVars, currentPath,
                       reloadCalls, frameInLoad, envVars >>

\* the rest of loadGame: setupBuffers, the bind group layouts, the pipelines,
\* setupBindGroups
FinishSetShader ==
    LET buffers == SetupBuffers(stateSize, audioCount)
        layout2 == IF Len(ModelEntries(models)) > 0
                   THEN Created(ModelEntries(models)) ELSE Absent
    IN /\ loading = Compiling
       /\ loading' = NotLoading
       /\ loads' = loads + 1
       /\ totalSize' = buffers.totalSize
       /\ bufferOffsets' = buffers.bufferOffsets
       /\ initData' = InitData(bufferOffsets')
       /\ audio' = InitialAudio(initData', bufferOffsets', audioCount)
       /\ staged' = [i \in 1..audioCount |-> 0]
       /\ mapping' = Available
       /\ renderBindGroupLayout0' =
              Created(RenderGroup0Entries(Len(textureFiles), Len(videoFiles),
                                          Len(cameraIndices)))
       /\ renderBindGroupLayout2' = layout2
       /\ renderBindGroup0' =
              Created(Group0Entries(textures, videoTextures, Len(cameraTextures),
                                    Len(textureFiles), Len(videoFiles)))
       /\ renderBindGroup2' = BindGroup2After(renderBindGroup2, layout2, models)
       /\ UNCHANGED << modelVars, frameVars, game, result, stateSize, audioCount,
                       textureFiles, videoFiles,
                       cameraIndices, modelFiles, oscParams, oscValues, textures,
                       videoTextures, cameraTextures, models, soundBuffers, frameWrites,
                       lastCall, running, loadError, inputVars, currentPath, reloadCalls,
                       frameInLoad, envVars >>

\* a source with nT textures and nS sounds
SwapGame(nT, nS) ==
    MainOnly([i \in 1..nT |-> Dir("texture", Name("t", i))]
             \o [i \in 1..nS |-> Dir("sound", Name("s", i))])

SwapGames == { SwapGame(nT, nS) : nT \in 0..1, nS \in 0..MaxSounds }

InitSwap == game \in SwapGames /\ Constructed /\ Untouched /\ AllReadable

NextSwap ==
    \/ InitGame
    \/ \E g \in SwapGames : BeginSetShader(g)
    \/ FinishSetShader
    \/ Update

SpecSwap == InitSwap /\ [][NextSwap]_vars

\* the frame copies the audio counters from the region that ends where osc begins
AudioCopyBelowOsc(frame) ==
    frame.audioCopy.enabled =>
        frame.audioCopy.offset + frame.audioCopy.size = frame.osc.offset

\* C18: while a shader load requested of the running engine is in progress no frame
\* is submitted, so every frame uses the buffer, the offsets and the audio count of
\* one and the same manifest.
C18_NoFrameDuringLoad ==
    frameWrites.done => (~frameInLoad /\ AudioCopyBelowOsc(frameWrites))

\* outside a load, every frame uses the offsets and the audio count of one manifest
FramesOutsideLoadUseOneManifest ==
    (frameWrites.done /\ ~frameInLoad) => AudioCopyBelowOsc(frameWrites)

\* a frame submitted during a load copies the audio counters of the new manifest
\* from the buffer of the old one, past the start of its osc region
FrameDuringLoadMixesManifests ==
    /\ frameWrites.done /\ frameInLoad
    /\ frameWrites.audioCopy.enabled
    /\ frameWrites.audioCopy.offset + frameWrites.audioCopy.size > frameWrites.osc.offset

(***************************************************************************)
(* Virtual buttons: the keys of KEY_MAP, two of which may be held at once. *)
(***************************************************************************)
MaxButtonKeysDown == 2

\* the keys of KEY_MAP and one key that is no button
ButtonEventCodes == DOMAIN KEY_MAP \cup {"KeyP"}

InitButtons == game = BobGame /\ Constructed /\ Untouched /\ AllReadable

NextButtons ==
    \/ InitGame
    \/ \E code \in ButtonEventCodes :
          Cardinality(pressed \cup {code}) <= MaxButtonKeysDown /\ KeyDown(code)
    \/ \E code \in ButtonEventCodes : KeyUp(code)
    \/ Update

SpecButtons == InitButtons /\ [][NextButtons]_vars

\* the keys that are held and mapped to button b
HeldKeysOf(b) == { code \in pressed : ButtonOf(code).defined /\ ButtonOf(code).value = b }

\* C28: after any sequence of keydown and keyup events each virtual button is 1
\* exactly when at least one of the keys mapped to it is held; BTN_SELECT stays 1
\* while either Shift key is down.
C28_ButtonSetIffSomeKeyHeld ==
    \A b \in 0..11 : buttons[b] = 1 <=> HeldKeysOf(b) # {}

\* a button is 1 only while a key mapped to it is held, and every button with a
\* single key is 1 whenever that key is held; BTN_SELECT may be 0 with a Shift key down
ButtonSetOnlyIfSomeKeyHeld ==
    /\ \A b \in 0..11 : buttons[b] \in {0, 1} /\ (buttons[b] = 1 => HeldKeysOf(b) # {})
    /\ \A b \in 0..10 : HeldKeysOf(b) # {} => buttons[b] = 1

(***************************************************************************)
(* C29: what setupBuffers leaves in the engine buffer (SpecLayout).        *)
(***************************************************************************)
\* the byte offsets of the words of a region of `count` words
WordOffsets(offset, count) == { offset + 4 * j : j \in 0..(count - 1) }

\* C29: right after setupBuffers every audio counter, osc slot and keys slot is zero, and
\* the only non-zero words written at creation are screen_width, screen_height and
\* words of the GameState region [80, 80 + S)
C29_OnlyScreenSizeAndStateNonZero ==
    (Loaded /\ ~frameWrites.done) =>
        /\ \A i \in 1..audioCount : audio[i] = 0
        /\ \A o \in WordOffsets(bufferOffsets.osc, 64) : InitialWord(initData, o) = 0
        /\ \A o \in WordOffsets(bufferOffsets.keys, 194) : InitialWord(initData, o) = 0
        /\ \A w \in initData :
              \/ w.offset \in {56, 60}
              \/ w.offset >= 80 /\ w.offset < 80 + stateSize

\* C29, when the GameState region has room for the two words of the initial position
InitialBufferZeroOutsideStateOfEightBytes ==
    (Loaded /\ ~frameWrites.done /\ stateSize >= 8) =>
        /\ \A i \in 1..audioCount : audio[i] = 0
        /\ \A o \in WordOffsets(bufferOffsets.osc, 64) : InitialWord(initData, o) = 0
        /\ \A o \in WordOffsets(bufferOffsets.keys, 194) : InitialWord(initData, o) = 0
        /\ \A w \in initData :
              \/ w.offset \in {56, 60}
              \/ w.offset >= 80 /\ w.offset < 80 + stateSize

(***************************************************************************)
(* Models: games with @model directives whose OBJ files have three or four *)
(* v lines, no, one or three vn lines, and up to MaxFaces triangles        *)
(* (SpecModels).                                                           *)
(***************************************************************************)
MaxFaces == 2       \* f lines of an OBJ text

ObjPositions == << VLine(0, 0, 0), VLine(1, 0, 0), VLine(0, 1, 0), VLine(0, 0, 1) >>
ObjNormals   == << VnLine(0, 0, 1), VnLine(0, 1, 0), VnLine(1, 0, 0) >>

PositionTriples(nV) ==
    { t \in { << 1, 2, 3 >>, << 3, 2, 1 >>, << 2, 3, 4 >> } : \A i \in 1..3 : t[i] <= nV }

NormalTriples(nVN) ==
    IF nVN = 0 THEN { << 0, 0, 0 >> }
    ELSE { n \in { << 1, 1, 1 >>, << 1, 2, 3 >>, << 3, 2, 1 >>, << 2, 2, 2 >> } :
             \A i \in 1..3 : n[i] <= nVN }

FaceLines(nV, nVN) ==
    { FLine([i \in 1..3 |-> FaceRef(t[i], n[i])]) :
        t \in PositionTriples(nV), n \in NormalTriples(nVN) }

ObjText(nV, nVN, faces) == SubSeq(ObjPositions, 1, nV) \o SubSeq(ObjNormals, 1, nVN) \o faces

ObjTextsOf(nV, nVN) == { ObjText(nV, nVN, faces) : faces \in SeqsUpTo(FaceLines(nV, nVN), MaxFaces) }

\* main.wgsl with one @model per text, and the OBJ files
ModelGame(texts) ==
    [f \in {MainFile} \cup { Name("m", i) : i \in 1..Len(texts) } |->
        IF f = MainFile THEN [i \in 1..Len(texts) |-> Dir("model", Name("m", i))]
        ELSE texts[CHOOSE i \in 1..Len(texts) : f = Name("m", i)]]

InitModels ==
    /\ \/ game = ModelGame(<< >>)
       \/ \E nV \in {3, 4}, nVN \in {0, 1, 3} :
             \E text \in ObjTextsOf(nV, nVN) : game = ModelGame(<< text >>)
       \/ \E first, last \in ObjTextsOf(3, 0) : game = ModelGame(<< first, last >>)
    /\ Constructed /\ Untouched /\ AllReadable

NextModels == InitGame \/ Update
SpecModels == InitModels /\ [][NextModels]_vars

\* the f lines of the i-th model file, and the vertex reference behind its k-th
\* expanded vertex
FacesOf(i) == LinesOf(game[modelFiles[i]], "f")
FaceVertex(i, k) == FacesOf(i)[((k - 1) \div 3) + 1].refs[((k - 1) % 3) + 1]

\* the draw call of the last frame
DrawOps == SelectSeq(frameOps, LAMBDA o : o.op = "draw")

\* C26: the draw call uses vertex count 3 when there are no models, and otherwise the
\* vertex count of model 0
C26_DrawCountOfModelZero ==
    (Loaded /\ frameOps # << >>) =>
        /\ Len(DrawOps) = 1
        /\ DrawOps[1].at = IF Len(modelBuffers) = 0 THEN 3
                           ELSE Len(modelBuffers[1].positionsBuffer)

\* C26, for the vertex count that render() uses: that of the last model, and 3 when
\* that is zero
DrawCountOfLastModel ==
    (Loaded /\ frameOps # << >>) =>
        /\ Len(DrawOps) = 1
        /\ DrawOps[1].at =
              IF Len(modelBuffers) = 0 \/ Len(modelBuffers[Len(modelBuffers)].positionsBuffer) = 0
              THEN 3
              ELSE Len(modelBuffers[Len(modelBuffers)].positionsBuffer)

\* what C27 says of one model file: parseOBJ gives positions and normals of 3 x faces
\* entries, positions[k] is the v line the k-th face vertex refers to
ParsedAsListed(i) ==
    LET parsed == ParseOBJ(game[modelFiles[i]])
        v      == LinesOf(game[modelFiles[i]], "v")
    IN /\ Len(parsed.positions) = 3 * Len(FacesOf(i))
       /\ Len(parsed.normals) = 3 * Len(FacesOf(i))
       /\ \A k \in 1..Len(parsed.positions) :
             /\ parsed.positions[k].defined
             /\ parsed.positions[k].value = v[FaceVertex(i, k).v].xyz

\* ... and loadModels stores every vector as four floats, the fourth being 0
StoredInFourLanes(i) ==
    LET v == LinesOf(game[modelFiles[i]], "v")
    IN /\ i <= Len(modelBuffers)
       /\ Len(modelBuffers[i].positionsBuffer) = 3 * Len(FacesOf(i))
       /\ Len(modelBuffers[i].normalsBuffer) = 3 * Len(FacesOf(i))
       /\ \A k \in 1..Len(modelBuffers[i].positionsBuffer) :
             LET p == modelBuffers[i].positionsBuffer[k]
                 n == modelBuffers[i].normalsBuffer[k]
             IN /\ << p.x, p.y, p.z >> = << v[FaceVertex(i, k).v].xyz.x,
                                            v[FaceVertex(i, k).v].xyz.y,
                                            v[FaceVertex(i, k).v].xyz.z >>
                /\ p.w = 0 /\ n.w = 0

\* C27: for every OBJ text of triangles parseOBJ returns positions and normals of
\* 3 x faces entries, positions[k] being the v entry of the k-th face vertex, and
\* loadModels stores each vector as four floats whose fourth lane is 0
C27_ParsedAndStoredInFourLanes ==
    Attempted => \A i \in 1..Len(modelFiles) : ParsedAsListed(i) /\ StoredInFourLanes(i)

\* C27, for the games whose load is not rejected
ParsedAndStoredInFourLanesWhenLoaded ==
    /\ Attempted => \A i \in 1..Len(modelFiles) : ParsedAsListed(i)
    /\ Loaded => \A i \in 1..Len(modelFiles) : StoredInFourLanes(i)

\* C30: when the file has vn lines, the normal of the k-th expanded vertex is the vn
\* line its normal index refers to
C30_NormalOfNormalIndex ==
    Attempted =>
        \A i \in 1..Len(modelFiles) :
            LET parsed == ParseOBJ(game[modelFiles[i]])
                vn     == LinesOf(game[modelFiles[i]], "vn")
            IN vn # << >> =>
                 \A k \in 1..Len(parsed.normals) :
                    /\ parsed.normals[k].defined
                    /\ parsed.normals[k].value = vn[FaceVertex(i, k).vn].xyz

\* C30, for the normal parseOBJ emits: the vn line at the position index, or nothing
\* when the file has fewer vn lines than that
NormalAtPositionIndex ==
    Attempted =>
        \A i \in 1..Len(modelFiles) :
            LET parsed == ParseOBJ(game[modelFiles[i]])
                vn     == LinesOf(game[modelFiles[i]], "vn")
            IN vn # << >> =>
                 \A k \in 1..Len(parsed.normals) :
                    IF FaceVertex(i, k).v <= Len(vn)
                    THEN /\ parsed.normals[k].defined
                         /\ parsed.normals[k].value = vn[FaceVertex(i, k).v].xyz
                    ELSE ~parsed.normals[k].defined

(***************************************************************************)
(* The frame loop and the audio read-back: games with up to one video and  *)
(* up to MaxSounds sounds whose update_game triggers any of the sounds in  *)
(* any frame, frames and read-back completions in every order, and one key *)
(* pressed and released in between (SpecAudio).  SpecAudioLive adds that   *)
(* every mapAsync that was started is answered.                            *)
(***************************************************************************)
FrameGame(nV, nS) ==
    MainOnly([i \in 1..nV |-> Dir("video", Name("v", i))] \o SoundDirs(nS))

InitAudio ==
    /\ \E nV \in 0..1, nS \in 0..MaxSounds : game = FrameGame(nV, nS)
    /\ Constructed /\ Untouched /\ AllReadable

NextAudio ==
    \/ InitGame
    \/ \E triggers \in SUBSET (1..MaxSounds) : GameLoop(triggers)
    \/ MapComplete
    \/ KeyDown("Space")
    \/ KeyUp("Space")

SpecAudio == InitAudio /\ [][NextAudio]_vars
SpecAudioLive == SpecAudio /\ WF_vars(MapComplete)

\* the calls of the last gameLoop() itself, without the writes of later callbacks
RECURSIVE FrameOnly(_)
FrameOnly(ops) ==
    IF ops # << >> /\ ops[Len(ops)].what = "audio" /\ ops[Len(ops)].op = "writeBuffer"
    THEN FrameOnly(SubSeq(ops, 1, Len(ops) - 1)) ELSE ops

\* the places of a call in a sequence of calls
Places(ops, op, what) == { k \in 1..Len(ops) : ops[k].op = op /\ ops[k].what = what }

\* every call of the first kind comes before every call of the second kind
Before(ops, op1, what1, op2, what2) ==
    \A a \in Places(ops, op1, what1), b \in Places(ops, op2, what2) : a < b

\* the part of the order of C21 that concerns update() and the draw call
FrameOrderUpToDraw(ops) ==
    /\ \A k \in Places(ops, "copyExternalImageToTexture", "video") :
          \A w \in Places(ops, "writeBuffer", "input") : k < w
    /\ Cardinality(Places(ops, "writeBuffer", "input")) = 1
    /\ Cardinality(Places(ops, "writeBuffer", "osc")) = 1
    /\ Cardinality(Places(ops, "writeBuffer", "keys")) = 1
    /\ Cardinality(Places(ops, "dispatchWorkgroups", "update")) = 1
    /\ Cardinality(Places(ops, "draw", "render")) = 1
    /\ Cardinality(Places(ops, "copyBufferToBuffer", "audio")) = IF audioCount > 0 THEN 1 ELSE 0
    /\ Cardinality(Places(ops, "mapAsync", "staging")) = IF audioCount > 0 THEN 1 ELSE 0
    /\ Before(ops, "writeBuffer", "input", "writeBuffer", "osc")
    /\ Before(ops, "writeBuffer", "osc", "writeBuffer", "keys")
    /\ Before(ops, "writeBuffer", "keys", "dispatchWorkgroups", "update")
    /\ \A k \in Places(ops, "dispatchWorkgroups", "update") : ops[k].at = 1
    /\ Before(ops, "dispatchWorkgroups", "update", "copyBufferToBuffer", "audio")
    /\ Before(ops, "copyBufferToBuffer", "audio", "draw", "render")
    /\ Before(ops, "dispatchWorkgroups", "update", "draw", "render")

\* C21: every frame uploads the dynamic textures, writes the input prefix, the osc
\* region and the keys region, dispatches one workgroup, copies the audio region to the
\* staging buffer, draws once in a render pass, and starts the map-read only after the
\* render work is submitted
C21_FrameOrder ==
    frameOps # << >> =>
        /\ FrameOrderUpToDraw(FrameOnly(frameOps))
        /\ Before(FrameOnly(frameOps), "submit", "render", "mapAsync", "staging")

\* C21, with the map-read where update() starts it: after its own submit and before
\* the render pass
FrameOrderWithMapBeforeRender ==
    frameOps # << >> =>
        /\ FrameOrderUpToDraw(FrameOnly(frameOps))
        /\ Before(FrameOnly(frameOps), "submit", "update", "mapAsync", "staging")
        /\ Before(FrameOnly(frameOps), "mapAsync", "staging", "draw", "render")

\* C22: no host-side write to the host block (input prefix, osc, keys, or the zeroing
\* of the audio counters by a read-back callback) is enqueued between a frame's compute
\* dispatch and that frame's render pass
C22_NoHostWriteBetweenComputeAndRender ==
    \A w \in 1..Len(frameOps) :
        frameOps[w].op = "writeBuffer" =>
            \/ \A d \in Places(frameOps, "dispatchWorkgroups", "update") : w < d
            \/ \A r \in Places(frameOps, "submit", "render") : w > r

\* a frame has dispatched and drawn, and a read-back callback has since zeroed the
\* counters of a sound that was triggered
C22_Witness ==
    /\ Places(frameOps, "dispatchWorkgroups", "update") # {}
    /\ Places(frameOps, "draw", "render") # {}
    /\ Places(frameOps, "writeBuffer", "audio") # {}
    /\ playRequests # << >>

\* C24: a frame that starts while the previous mapping of the staging buffer has not
\* completed records no copy into the staging buffer and starts no new mapping
C24_NoCopyOrMapWhilePending ==
    \A k \in 1..Len(frameOps) :
        frameOps[k].op \in {"copyBufferToBuffer", "mapAsync"} => frameOps[k].ok

\* the last thing done to the audio counters was the reset of a read-back callback
AfterReset == frameOps # << >> /\ frameOps[Len(frameOps)] = Op("writeBuffer", "audio", bufferOffsets.audio, TRUE)

\* C25: a completed read-back requests exactly one playback for every sound whose
\* copied counter is > 0 and none for the others, then zeroes all N counters, which stay
\* 0 until the next compute dispatch
C25_ReadBackPlaysAndResets ==
    AfterReset =>
        /\ \A i \in 1..audioCount :
              Cardinality({ k \in 1..Len(playRequests) : playRequests[k] = i - 1 })
                  = IF staged[i] > 0 THEN 1 ELSE 0
        /\ \A k \in 1..Len(playRequests) : playRequests[k] + 1 \in 1..audioCount
        /\ Len(audio) = audioCount
        /\ \A i \in 1..audioCount : audio[i] = 0

\* a read-back found one sound triggered and another not, and a key was pressed since
C25_Witness ==
    /\ AfterReset
    /\ audioCount = 2 /\ staged[1] = 0 /\ staged[2] > 0
    /\ playRequests = << 1 >>
    /\ pressed # {}

============================================================================
